---- MODULE Spec2Model ----
(***************************************************************************)
(* Cooling tower control logic, version 2.0.0 ("OPTIMIZED"):               *)
(* processCoolingTowerControl(data, uiCommands, stateStorage) and the      *)
(* functions it calls, src/unnamed/part_000 lines 1414-2439.               *)
(*                                                                         *)
(* Units.  Time is in whole seconds (Date.now() / 1000; every interval the *)
(* code compares against is a whole number of seconds).  Voltages are in   *)
(* tenths of a volt (2.6 V = 26).  Vibration is in tenths of a mm/s.       *)
(* Temperatures are whole degrees F, currents whole amperes.               *)
(*                                                                         *)
(* One call of processCoolingTowerControl is one Tick.  The caller's       *)
(* stateStorage object is the variable ss, the returned controlResult is   *)
(* the variable out.                                                       *)
(***************************************************************************)
EXTENDS Integers, FiniteSets, Sequences, TLC

VARIABLES
    now,         \* Date.now() of the latest call, in seconds
    ticks,       \* number of calls made so far
    towerAvail,  \* COOLING_TOWER_CONFIG.TOWER_i_AVAILABLE, as the set of available towers
    pidAvail,    \* whether require('pid-controller') succeeded at module load
    ss,          \* stateStorage, the state the caller carries from call to call
    out,         \* the controlResult returned by the latest call
    path,        \* the return statement the latest call left through
    inp,         \* observer: the arguments of the latest call
    offAt,       \* observer: per tower, the instant its VFD enable last went true -> false (0: never)
    coldSince    \* observer: the instant of the first call of the unbroken run of automatic
                 \* calls with deltaT < -15 that the latest call belongs to (0: it belongs to none)

vars == <<now, ticks, towerAvail, pidAvail, ss, out, path, inp, offAt, coldSince>>

Towers == 1..3
Pumps == 1..3

\* ------------------------------------------------------------------ bounds

\* Number of calls of processCoolingTowerControl explored from the empty state,
\* per specification.
MaxTicks == 3
MaxAutoTicks == 4
MaxPumpTicks == 4
MaxValveTicks == 4
MaxHeaterTicks == 4
MaxAvailTicks == 3
MaxStagingTicks == 3
MaxEnforcerTicks == 3
MaxErrorTicks == 3
MaxStartupTicks == 3
MaxLagTicks == 3
MaxLagWeeks == 2
MaxFailoverTicks == 4
MaxRotationTicks == 3
MaxWarningTicks == 6
MaxRampTicks == 5
MaxSanitizerTicks == 3
MaxUnavailTicks == 3
MaxShutdownTicks == 4

\* ------------------------------------------------- COOLING_TOWER_CONFIG

BYPASS_VIBRATION_LIMITS == FALSE
BYPASS_CURRENT_LIMITS == FALSE
BYPASS_PUMP_STATUS == FALSE
PumpAvail == {1, 2, 3}

VIBRATION_WARNING_LIMIT == 45
VIBRATION_CRITICAL_LIMIT == 71
VFD_CURRENT_WARNING == 40
VFD_CURRENT_CRITICAL == 45
PUMP_CURRENT_MAX == 45
STAGE_1_DELTA_T == 10
STAGE_2_DELTA_T == 20
STAGE_3_DELTA_T == 30
STAGE_4_DELTA_T == 35
VFD_MIN_SPEED == 26
VFD_MAX_SPEED == 48
VFD_LOW_SPEED == 35
PUMP_CHANGEOVER_OVERLAP_MS == 5
WEEK_IN_MS == 7 * 24 * 60 * 60

\* Literals of the code that the claims name.
MinRuntimeS == 420
MinOffTimeS == 180
MinRampTimeS == 15
MaxStep == 3
FailoverDebounceS == 30
CallerPeriodS == 7
PumpFailCurrent == 10
ValveMin == 20
ValveMax == 100

\* JavaScript null for an instant (startTime: null); every real instant is > 0.
NULL == 0
\* JavaScript undefined for a numeric input (an absent key).
Undef == 0 - 9999
\* A value that is present but is not the text of a number, and is truthy:
\* non-empty text such as "auto" or "abc".
NonNumeric == 0 - 8888
\* null or the empty text "": present (not undefined), falsy, not a number.
EmptyText == 0 - 5555
\* The text "0": truthy like every non-empty text, and the decimal text of 0.
ZeroText == 0 - 4444
\* The IEEE not-a-number value.
NaN == 0 - 7777
\* parseFloat: a number, or the decimal text of one, parses to that number
\* (a non-zero number and its decimal text are the same value here; the text
\* "0" is ZeroText); anything else parses to NaN.
parseFloat(v) ==
    IF v \in {NonNumeric, EmptyText, Undef, NaN} THEN NaN
    ELSE IF v = ZeroText THEN 0
    ELSE v
\* A value whose conversion to a string throws a TypeError (a Symbol, an object
\* without a prototype): parseFloat, which converts its argument to a string
\* first, throws on it.
Unconvertible == 0 - 6666
parseFloatThrows(v) == v = Unconvertible

\* Date.now() at construction: later than every interval the code measures
\* from the literal instants 0 it initializes lastChange and lastFailoverTime to.
StartInstant == 2 * WEEK_IN_MS

\* The element of a one-element set.  Below,  Only({ e : x \in {v} })  is
\* "e with x the value of v": the way one statement's result is handed to the
\* next, so nested singletons read from the innermost (the first statement)
\* outwards (the last).
Only(S) == CHOOSE x \in S : TRUE

Max(a, b) == IF a >= b THEN a ELSE b
Min(a, b) == IF a <= b THEN a ELSE b
Abs(a) == IF a >= 0 THEN a ELSE 0 - a

\* IEEE arithmetic on values that may be NaN: a difference with NaN is NaN, and
\* every comparison with NaN is false.  (NaN is below every number the
\* model compares with, so  >  and  >=  against a limit are false of it as
\* they stand; only  <  needs the explicit test.)
Minus(a, b) == IF a = NaN \/ b = NaN THEN NaN ELSE a - b
Less(a, b) == a # NaN /\ b # NaN /\ a < b

\* ------------------------------------------------------ initializeState

\* The four objects initializeState creates when the caller's object lacks them,
\* at instant t.
FreshState(t) ==
    [ inited |-> TRUE,
      towers |-> [ leadTower |-> 1,
                   lastRotationTime |-> t,
                   timers |-> [i \in Towers |-> [startTime |-> NULL, stopTime |-> NULL]],
                   speedRamping |-> [i \in Towers |->
                        [currentSpeed |-> 0, currentSpeedLsb |-> 0,
                         targetSpeed |-> 0, lastChange |-> 0]] ],
      pumps |-> [ activePump |-> 1,
                  lastRotationTime |-> t,
                  changeoverState |-> [newPump |-> NULL, startTime |-> NULL],
                  failoverCount |-> 0,
                  lastFailoverTime |-> 0 ],
      pidStates |-> [ tower |-> [i \in Towers |->
                                    [lastOutput |-> VFD_MIN_SPEED, lastOutputLsb |-> 0]],
                      valve |-> [integral |-> 0, lastOutput |-> 60] ],
      lastGoodTemps |-> [towerSupply |-> 85, towerReturn |-> 95,
                         hpReturn |-> 85, hpSupply |-> 75] ]

\* stateStorage = {} : nothing initialized yet (the field values are placeholders
\* that initializeState overwrites on the first call).
EmptyState == [FreshState(NULL) EXCEPT !.inited = FALSE]

initializeState(s, t) == IF s.inited THEN s ELSE FreshState(t)

\* ------------------------------------------------------ parseSensorData

\* JavaScript  x || d : the falsy values are an absent key, 0, NaN, null and
\* the empty text; every other value, the text "0" included, is kept.
OrDefault(x, d) == IF x \in {Undef, 0, NaN, EmptyText} THEN d ELSE x

\* One loop temperature through sanitizeTemperatures: the value used, and the
\* lastGoodTemps entry afterwards.
sanitizeLoopTemp(temp, lastGood) ==
    IF temp >= 40 /\ temp <= 120
    THEN [value |-> temp, lastGood |-> temp]
    ELSE IF lastGood # 0
         THEN [value |-> lastGood, lastGood |-> lastGood]
         ELSE [value |-> temp, lastGood |-> lastGood]

sanitizeOutdoor(temp) == IF temp >= 0 - 20 /\ temp <= 120 THEN temp ELSE 75

\* parseSensorData throws: the parseFloat of a reading that cannot be converted
\* does.  The object literal is evaluated in source order: a throw on a current
\* or on a temperature comes before sanitizeTemperatures has run, a throw on a
\* vibration or on the setpoint after it has updated lastGoodTemps.
parseSensorDataThrowsEarly(data) ==
    \/ \E k \in 1..6 : parseFloatThrows(OrDefault(data.AI[k], 0))
    \/ \E p \in Pumps : parseFloatThrows(OrDefault(data.pumpI[p], 0))
    \/ parseFloatThrows(OrDefault(data.CH10, 75))
    \/ parseFloatThrows(OrDefault(data.CH9, 85))
    \/ parseFloatThrows(OrDefault(data.CH1, 85))
    \/ parseFloatThrows(OrDefault(data.CH2, 75))
    \/ parseFloatThrows(OrDefault(data.outdoorTemp, 75))

parseSensorDataThrows(data) ==
    \/ parseSensorDataThrowsEarly(data)
    \/ \E i \in Towers : parseFloatThrows(OrDefault(data.WTV[i], 0))
    \/ parseFloatThrows(OrDefault(data.userSetpoint, OrDefault(data.targetSupplyTemp, 75)))

\* parseSensorData: the sensorData object, and stateStorage with lastGoodTemps updated.
parseSensorData(data, s) ==
    LET ts == sanitizeLoopTemp(parseFloat(OrDefault(data.CH10, 75)), s.lastGoodTemps.towerSupply)
        tr == sanitizeLoopTemp(parseFloat(OrDefault(data.CH9, 85)), s.lastGoodTemps.towerReturn)
        hr == sanitizeLoopTemp(parseFloat(OrDefault(data.CH1, 85)), s.lastGoodTemps.hpReturn)
        hs == sanitizeLoopTemp(parseFloat(OrDefault(data.CH2, 75)), s.lastGoodTemps.hpSupply)
    IN  [ sensorData |->
            [ vfdCurrents |-> [k \in 1..6 |-> parseFloat(OrDefault(data.AI[k], 0))],
              pumpCurrents |-> [p \in Pumps |-> parseFloat(OrDefault(data.pumpI[p], 0))],
              temps |-> [ towerSupply |-> ts.value, towerReturn |-> tr.value,
                          hpReturn |-> hr.value, hpSupply |-> hs.value,
                          outdoor |-> sanitizeOutdoor(parseFloat(OrDefault(data.outdoorTemp, 75))) ],
              vibration |-> [i \in Towers |-> parseFloat(OrDefault(data.WTV[i], 0))],
              targetSetpoint |->
                  parseFloat(OrDefault(data.userSetpoint,
                                       OrDefault(data.targetSupplyTemp, 75))) ],
          ss |-> [s EXCEPT !.lastGoodTemps =
                    [towerSupply |-> ts.lastGood, towerReturn |-> tr.lastGood,
                     hpReturn |-> hr.lastGood, hpSupply |-> hs.lastGood]] ]

\* --------------------------------------------------- initializeControlResult

initializeControlResult(sensorData) ==
    [ VFDEnable |-> [i \in Towers |-> FALSE],
      FanSpeed |-> [i \in Towers |-> 0],
      bypassValvePosition |-> 20,
      temperingValvePosition |-> 20,
      pumpEnable |-> [p \in Pumps |-> FALSE],
      IsolationValveOpen |-> [i \in Towers |-> FALSE],
      IsolationValveClose |-> [i \in Towers |-> FALSE],
      HeaterEnable |-> [i \in Towers |-> FALSE],
      systemEnabled |-> TRUE,
      controlMode |-> "auto",
      leadTower |-> 1,
      activeTowers |-> 0,
      coolingDemand |-> 0,
      outdoorTemp |-> sensorData.temps.outdoor,
      targetSupplyTemp |-> sensorData.targetSetpoint,
      loopDeltaT |-> Minus(sensorData.temps.hpSupply, sensorData.targetSetpoint),
      alarmStatus |-> "normal",
      faultConditions |-> {} ]

\* The placeholder value of a field createSafeDefaultState leaves undefined.
createSafeDefaultState ==
    [ VFDEnable |-> [i \in Towers |-> FALSE],
      FanSpeed |-> [i \in Towers |-> 0],
      bypassValvePosition |-> 20,
      temperingValvePosition |-> 20,
      pumpEnable |-> [p \in Pumps |-> FALSE],
      IsolationValveOpen |-> [i \in Towers |-> FALSE],
      IsolationValveClose |-> [i \in Towers |-> TRUE],
      HeaterEnable |-> [i \in Towers |-> FALSE],
      systemEnabled |-> FALSE,
      controlMode |-> "error",
      leadTower |-> 1,
      activeTowers |-> 0,
      coolingDemand |-> 0,
      outdoorTemp |-> Undef,
      targetSupplyTemp |-> 85,
      loopDeltaT |-> Undef,
      alarmStatus |-> "error",
      faultConditions |-> {<<"CONTROL_SYSTEM_ERROR", 0>>} ]

\* ---------------------------------------------------------- safety gate

\* The tower a vfdCurrents key belongs to: tower1A, tower1B, tower2A, ...
TowerOfLeg(k) == (k + 1) \div 2

CriticalFaults(sensorData) ==
    (IF BYPASS_VIBRATION_LIMITS THEN {}
     ELSE {<<"HIGH_VIBRATION_CRITICAL", i>> : i \in
              {j \in Towers : sensorData.vibration[j] > VIBRATION_CRITICAL_LIMIT}})
    \cup
    (IF BYPASS_CURRENT_LIMITS THEN {}
     ELSE {<<"CRITICAL_VFD_CURRENT", TowerOfLeg(k)>> : k \in
              {j \in 1..6 : sensorData.vfdCurrents[j] > VFD_CURRENT_CRITICAL}}
          \cup
          {<<"PUMP_OVERCURRENT", p>> : p \in
              {q \in Pumps : sensorData.pumpCurrents[q] > PUMP_CURRENT_MAX}})

\* The emergency shutdown performSafetyChecks writes into controlResult.
ShutdownAllEquipment(cr) ==
    [cr EXCEPT !.alarmStatus = "critical",
               !.systemEnabled = FALSE,
               !.VFDEnable = [i \in Towers |-> FALSE],
               !.FanSpeed = [i \in Towers |-> 0],
               !.IsolationValveClose = [i \in Towers |-> TRUE],
               !.IsolationValveOpen = [i \in Towers |-> FALSE]]

performSafetyChecks(sensorData, cr) ==
    LET faults == CriticalFaults(sensorData)
        cr1 == [cr EXCEPT !.faultConditions = faults]
    IN  IF faults # {}
        THEN [safe |-> FALSE, controlResult |-> ShutdownAllEquipment(cr1)]
        ELSE [safe |-> TRUE, controlResult |-> cr1]

\* ----------------------------------------------------- manual overrides

\* A boolean UI command: "undef" (absent), "true" or "false".
OverrideBool(cmd, old) == IF cmd = "undef" THEN old ELSE (cmd = "true")

applyManualOverrides(ui, cr) ==
    [cr EXCEPT
        !.systemEnabled = OverrideBool(ui.systemEnabled, @),
        !.controlMode = IF ui.controlMode = "undef" THEN @ ELSE ui.controlMode,
        !.VFDEnable = [i \in Towers |-> OverrideBool(ui.VFDEnable[i], @[i])],
        !.FanSpeed = [i \in Towers |->
                        IF ui.FanSpeed[i] = Undef THEN @[i]
                        ELSE parseFloat(ui.FanSpeed[i])],
        !.HeaterEnable = [i \in Towers |-> OverrideBool(ui.HeaterEnable[i], @[i])]]

\* applyManualOverrides throws: the parseFloat of a supplied fan speed does.
applyManualOverridesThrows(ui) ==
    \E i \in Towers : parseFloatThrows(ui.FanSpeed[i])

\* ------------------------------------------------------ lead rotation

\* Mutant of performLeadTowerRotation: the lead never rotates.
performLeadTowerRotation_Never(s, t) == s

performLeadTowerRotation(s, t) ==
    LET lead == s.towers.leadTower
        c1 == (lead % 3) + 1
        c2 == (c1 % 3) + 1
        c3 == (c2 % 3) + 1
        nextTower == IF c1 \in towerAvail THEN c1
                     ELSE IF c2 \in towerAvail THEN c2 ELSE c3
    IN  IF t - s.towers.lastRotationTime > WEEK_IN_MS /\ nextTower \in towerAvail
        THEN [s EXCEPT !.towers.leadTower = nextTower,
                       !.towers.lastRotationTime = t]
        ELSE s

\* ------------------------------------------------------------- staging

isAnyTowerCurrentlyRunning(s) ==
    \E i \in Towers : s.towers.timers[i].startTime # NULL

getCurrentlyRunningTowerCount(s) ==
    Cardinality({i \in Towers : s.towers.timers[i].startTime # NULL})

\* Mutant of calculateStaging: stage 2 starts above, not at, STAGE_2_DELTA_T.
calculateStaging_Stage2Strict(sensorData, s) ==
    LET deltaT == Minus(sensorData.temps.hpSupply, sensorData.targetSetpoint)
        lead == s.towers.leadTower
        decision ==
            IF Less(deltaT, 0 - 15) \/ sensorData.temps.hpSupply < 65
                               \/ sensorData.temps.towerSupply < 50
            THEN <<0, 0>>
            ELSE IF isAnyTowerCurrentlyRunning(s) /\ deltaT >= 0 - 5
            THEN <<Max(1, getCurrentlyRunningTowerCount(s)),
                   Max(28, Min(100, 28 + (deltaT * 3)))>>
            ELSE IF deltaT >= STAGE_1_DELTA_T
            THEN IF deltaT >= STAGE_4_DELTA_T THEN <<3, 100>>
                 ELSE IF deltaT >= STAGE_3_DELTA_T THEN <<3, 75>>
                 ELSE IF deltaT > STAGE_2_DELTA_T THEN <<2, 60>>
                 ELSE <<1, Max(28, Min(50, 28 + ((deltaT - 10) * 2)))>>
            ELSE <<0, 0>>
    IN  [ demandedTowers |-> decision[1],
          coolingDemand |-> decision[2],
          deltaT |-> deltaT,
          leadTower |-> lead,
          lagTowers |-> <<(lead % 3) + 1, ((lead + 1) % 3) + 1>> ]

calculateStaging(sensorData, s) ==
    LET deltaT == Minus(sensorData.temps.hpSupply, sensorData.targetSetpoint)
        lead == s.towers.leadTower
        decision ==
            IF Less(deltaT, 0 - 15) \/ sensorData.temps.hpSupply < 65
                               \/ sensorData.temps.towerSupply < 50
            THEN <<0, 0>>
            ELSE IF isAnyTowerCurrentlyRunning(s) /\ deltaT >= 0 - 5
            THEN <<Max(1, getCurrentlyRunningTowerCount(s)),
                   Max(28, Min(100, 28 + (deltaT * 3)))>>
            ELSE IF deltaT >= STAGE_1_DELTA_T
            THEN IF deltaT >= STAGE_4_DELTA_T THEN <<3, 100>>
                 ELSE IF deltaT >= STAGE_3_DELTA_T THEN <<3, 75>>
                 ELSE IF deltaT >= STAGE_2_DELTA_T THEN <<2, 60>>
                 ELSE <<1, Max(28, Min(50, 28 + ((deltaT - 10) * 2)))>>
            ELSE <<0, 0>>
    IN  [ demandedTowers |-> decision[1],
          coolingDemand |-> decision[2],
          deltaT |-> deltaT,
          leadTower |-> lead,
          lagTowers |-> <<(lead % 3) + 1, ((lead + 1) % 3) + 1>> ]

\* ------------------------------------------------------ tower commander

\* canEnableTower without the availability check.
canEnableTower_IgnoresAvailability(towerNum, s, t) ==
    LET timer == s.towers.timers[towerNum]
    IN  ~(timer.stopTime # NULL /\ t - timer.stopTime < MinOffTimeS)

canEnableTower(towerNum, s, t) ==
    IF towerNum \notin towerAvail THEN FALSE
    ELSE LET timer == s.towers.timers[towerNum]
         IN  ~(timer.stopTime # NULL /\ t - timer.stopTime < MinOffTimeS)

\* The external PID library (src/services/pid-controller, not part of the
\* sources at hand): what one call returns is an input of the tick.  The
\* library clamps its output to the controller's range.
PidTowerOutput(pid, towerNum) == Max(VFD_MIN_SPEED, Min(VFD_MAX_SPEED, pid.tower[towerNum]))
PidValveOutput(pid) == Max(ValveMin, Min(ValveMax, pid.valve))

\* ------------------------------------------------- speeds as IEEE doubles

\* The fan speeds the code computes are IEEE doubles, and  2.7 + 0.1  is not
\* the double of 2.8: whether a ramp step is taken depends on the last bits.
\* A speed is therefore held as a pair: v, the speed rounded to tenths of a
\* volt, and lsb, the rest of the double, the integer
\*     (speed - (2.6 + (v - 26) * 0.1)) / 2^-56
\* where 2.6 and 0.1 are the doubles of these literals and the arithmetic is
\* exact.  In stateStorage the v parts are the fields lastOutput and
\* currentSpeed, the lsb parts the fields lastOutputLsb and currentSpeedLsb.

\* The lsb of the double of the literal k/10, k = 26..48 (2.6 V .. 4.8 V).
CanonLsb ==
    <<0, 6, 0 - 20, 0 - 14, 0 - 8, 0 - 2, 4, 0 - 22, 0 - 16, 0 - 10, 0 - 4, 2,
      0 - 24, 0 - 18, 0 - 12, 0 - 38, 0, 0 - 26, 12, 0 - 14, 0 - 40, 0 - 2, 0 - 28>>

\* The double of the literal k/10.
Double(k) == [v |-> k, lsb |-> CanonLsb[k - 25]]

\* (2.6 + 14 * 0.1 - 4.0) / 2^-56: where the binade [4, 8) begins at v = 40.
FourOffset == 12
\* (0.3 - 3 * 0.1) / 2^-56, on the doubles of 0.3 and 0.1.
MaxStepLsb == 0 - 2

\* The grid point 2.6 + (k - 26) * 0.1 in units of 2^-56, modulo 128: the
\* double 2.6 is 32 and the double 0.1 is 26 modulo 128.
GridMod128(k) == (32 + 26 * (k - 26)) % 128

\* Round-to-nearest-even of the real number with parts (k, m) to a double:
\* the lsb of the result.  Doubles are 32 units apart below 4.0 and 64 from
\* 4.0 on.
RoundToDouble(k, m) ==
    LET ulp == IF k > 40 \/ (k = 40 /\ m + FourOffset >= 0) THEN 64 ELSE 32
        r == (GridMod128(k) + m) % ulp
        odd == ((GridMod128(k) + m - r) % (2 * ulp)) # 0
    IN  IF 2 * r < ulp \/ (2 * r = ulp /\ ~odd) THEN m - r ELSE m + ulp - r

\* a < b on doubles.
DoubleLess(a, b) == a.v < b.v \/ (a.v = b.v /\ a.lsb < b.lsb)

\* x + d in double arithmetic, for the double d with parts (dv, dlsb):
\* 0.1 is (1, 0), 0.3 is (MaxStep, MaxStepLsb), and their negatives.
DoublePlus(x, dv, dlsb) == [v |-> x.v + dv, lsb |-> RoundToDouble(x.v + dv, x.lsb + dlsb)]

\* a - b > d for the double d with parts (dv, dlsb); double subtraction of
\* two speeds is exact.
DoubleExceeds(a, b, dv, dlsb) ==
    a.v - b.v > dv \/ (a.v - b.v = dv /\ a.lsb - b.lsb > dlsb)

\* calculateFallbackSpeed: the speed, which is pidState.lastOutput afterwards.
calculateFallbackSpeed(coolingDemand, pidState) ==
    LET speed == IF pidState.lastOutput # 0
                 THEN [v |-> pidState.lastOutput, lsb |-> pidState.lastOutputLsb]
                 ELSE Double(VFD_MIN_SPEED)
        up == DoublePlus(speed, 1, 0)
        down == DoublePlus(speed, 0 - 1, 0)
    IN  IF coolingDemand > 50
        THEN (IF DoubleLess(Double(VFD_MAX_SPEED), up) THEN Double(VFD_MAX_SPEED) ELSE up)
        ELSE IF coolingDemand < 30
        THEN (IF DoubleLess(down, Double(VFD_MIN_SPEED)) THEN Double(VFD_MIN_SPEED) ELSE down)
        ELSE speed

\* applySpeedRamping: the returned speed (in tenths) and the rampState
\* afterwards; targetSpeed is a double.  A step of the whole difference lands
\* on the target exactly.
applySpeedRamping(targetSpeed, rampState, t) ==
    LET timeSinceLastChange == t - rampState.lastChange
        r1 == IF rampState.currentSpeed = 0
              THEN [rampState EXCEPT !.currentSpeed = VFD_MIN_SPEED,
                                     !.currentSpeedLsb = Double(VFD_MIN_SPEED).lsb,
                                     !.lastChange = t]
              ELSE rampState
        current == [v |-> r1.currentSpeed, lsb |-> r1.currentSpeedLsb]
        up == DoubleExceeds(targetSpeed, current, 1, 0)
        down == DoubleExceeds(current, targetSpeed, 1, 0)
        stepped == IF up /\ DoubleExceeds(targetSpeed, current, MaxStep, MaxStepLsb)
                   THEN DoublePlus(current, MaxStep, MaxStepLsb)
                   ELSE IF down /\ DoubleExceeds(current, targetSpeed, MaxStep, MaxStepLsb)
                   THEN DoublePlus(current, 0 - MaxStep, 0 - MaxStepLsb)
                   ELSE targetSpeed
        r2 == IF timeSinceLastChange >= MinRampTimeS /\ (up \/ down)
              THEN [r1 EXCEPT !.currentSpeed = stepped.v,
                              !.currentSpeedLsb = stepped.lsb,
                              !.lastChange = t]
              ELSE r1
        r3 == [r2 EXCEPT !.targetSpeed = targetSpeed.v]
    IN  [ speed |-> Max(VFD_MIN_SPEED, Min(VFD_MAX_SPEED, r3.currentSpeed)),
          rampState |-> r3 ]

\* Mutant of calculateTowerSpeed: no startup floor, the speed of a tower inside
\* its first 420 s comes from the PID and the ramp like any other.
calculateTowerSpeed_NoStartupFloor(towerNum, coolingDemand, sensorData, s, t, pid) ==
    LET usePid == pidAvail /\ ~pid.throws
        fallback == calculateFallbackSpeed(coolingDemand, s.pidStates.tower[towerNum])
        targetSpeed == IF usePid THEN Double(PidTowerOutput(pid, towerNum)) ELSE fallback
        s1 == IF usePid THEN s
              ELSE [s EXCEPT !.pidStates.tower[towerNum].lastOutput = fallback.v,
                             !.pidStates.tower[towerNum].lastOutputLsb = fallback.lsb]
        ramp == applySpeedRamping(targetSpeed, s.towers.speedRamping[towerNum], t)
    IN  IF Abs(Minus(sensorData.temps.hpSupply, sensorData.targetSetpoint)) < 2
        THEN [speed |-> VFD_MIN_SPEED, ss |-> s]
        ELSE [speed |-> ramp.speed,
              ss |-> [s1 EXCEPT !.towers.speedRamping[towerNum] = ramp.rampState]]

\* calculateTowerSpeed: the returned speed and stateStorage afterwards.
calculateTowerSpeed(towerNum, coolingDemand, sensorData, s, t, pid) ==
    LET timer == s.towers.timers[towerNum]
        usePid == pidAvail /\ ~pid.throws
        fallback == calculateFallbackSpeed(coolingDemand, s.pidStates.tower[towerNum])
        targetSpeed == IF usePid THEN Double(PidTowerOutput(pid, towerNum)) ELSE fallback
        s1 == IF usePid THEN s
              ELSE [s EXCEPT !.pidStates.tower[towerNum].lastOutput = fallback.v,
                             !.pidStates.tower[towerNum].lastOutputLsb = fallback.lsb]
        ramp == applySpeedRamping(targetSpeed, s.towers.speedRamping[towerNum], t)
    IN  IF timer.startTime # NULL /\ t - timer.startTime < MinRuntimeS
        THEN [speed |-> VFD_MIN_SPEED, ss |-> s]
        ELSE IF Abs(Minus(sensorData.temps.hpSupply, sensorData.targetSetpoint)) < 2
        THEN [speed |-> VFD_MIN_SPEED, ss |-> s]
        ELSE [speed |-> ramp.speed,
              ss |-> [s1 EXCEPT !.towers.speedRamping[towerNum] = ramp.rampState]]

\* Mutant of enableTower: starting the runtime timer leaves stopTime as it was.
enableTower_KeepsStopTime(towerNum, coolingDemand, sensorData, st, t, pid) ==
    LET timer == st.ss.towers.timers[towerNum]
        s1 == IF timer.startTime = NULL
              THEN [st.ss EXCEPT !.towers.timers[towerNum].startTime = t]
              ELSE st.ss
        sp == calculateTowerSpeed(towerNum, coolingDemand, sensorData, s1, t, pid)
    IN  [ ss |-> sp.ss,
          cr |-> [st.cr EXCEPT !.VFDEnable[towerNum] = TRUE,
                               !.IsolationValveOpen[towerNum] = TRUE,
                               !.IsolationValveClose[towerNum] = FALSE,
                               !.FanSpeed[towerNum] = sp.speed] ]

\* st is the pair (stateStorage, controlResult) the functions below update in place.
enableTower(towerNum, coolingDemand, sensorData, st, t, pid) ==
    LET timer == st.ss.towers.timers[towerNum]
        s1 == IF timer.startTime = NULL
              THEN [st.ss EXCEPT !.towers.timers[towerNum] =
                                    [startTime |-> t, stopTime |-> NULL]]
              ELSE st.ss
        sp == calculateTowerSpeed(towerNum, coolingDemand, sensorData, s1, t, pid)
    IN  [ ss |-> sp.ss,
          cr |-> [st.cr EXCEPT !.VFDEnable[towerNum] = TRUE,
                               !.IsolationValveOpen[towerNum] = TRUE,
                               !.IsolationValveClose[towerNum] = FALSE,
                               !.FanSpeed[towerNum] = sp.speed] ]

\* Mutant of ForceOn: the isolation-valve-close command is not cleared.
ForceOn_KeepsClose(cr, i) ==
    [cr EXCEPT !.VFDEnable[i] = TRUE,
               !.FanSpeed[i] = VFD_MIN_SPEED,
               !.IsolationValveOpen[i] = TRUE]

\* The force-ON assignment of enforceMinimumRuntimes (both of its ON branches).
ForceOn(cr, i) ==
    [cr EXCEPT !.VFDEnable[i] = TRUE,
               !.FanSpeed[i] = VFD_MIN_SPEED,
               !.IsolationValveOpen[i] = TRUE,
               !.IsolationValveClose[i] = FALSE]

\* Mutant of enforceMinimumRuntime: after the minimum runtime a tower is shut
\* down only below deltaT = -20.
enforceMinimumRuntime_ShutdownBelow20(i, sensorData, st, t) ==
    LET deltaT == Minus(sensorData.temps.hpSupply, sensorData.targetSetpoint)
        timer == st.ss.towers.timers[i]
    IN  IF timer.startTime # NULL /\ ~st.cr.VFDEnable[i]
        THEN IF t - timer.startTime < MinRuntimeS
             THEN [ss |-> st.ss, cr |-> ForceOn(st.cr, i)]
             ELSE IF Less(deltaT, 0 - 20)
             THEN [ss |-> [st.ss EXCEPT !.towers.timers[i] =
                                          [startTime |-> NULL, stopTime |-> t]],
                   cr |-> st.cr]
             ELSE [ss |-> st.ss, cr |-> ForceOn(st.cr, i)]
        ELSE st

\* One iteration of the loop of enforceMinimumRuntimes, for tower i.
enforceMinimumRuntime(i, sensorData, st, t) ==
    LET deltaT == Minus(sensorData.temps.hpSupply, sensorData.targetSetpoint)
        timer == st.ss.towers.timers[i]
    IN  IF timer.startTime # NULL /\ ~st.cr.VFDEnable[i]
        THEN IF t - timer.startTime < MinRuntimeS
             THEN [ss |-> st.ss, cr |-> ForceOn(st.cr, i)]
             ELSE IF Less(deltaT, 0 - 10)
             THEN [ss |-> [st.ss EXCEPT !.towers.timers[i] =
                                          [startTime |-> NULL, stopTime |-> t]],
                   cr |-> st.cr]
             ELSE [ss |-> st.ss, cr |-> ForceOn(st.cr, i)]
        ELSE st

enforceMinimumRuntimes(sensorData, st, t) ==
    Only({ enforceMinimumRuntime(3, sensorData, st2, t) :
           st2 \in { enforceMinimumRuntime(2, sensorData, st1, t) :
           st1 \in { enforceMinimumRuntime(1, sensorData, st, t) } } })

\* The body of the forEach of controlTowers for one tower of towersToEnable.
TryEnable(towerNum, coolingDemand, sensorData, st, t, pid) ==
    IF canEnableTower(towerNum, st.ss, t)
    THEN enableTower(towerNum, coolingDemand, sensorData, st, t, pid)
    ELSE st

\* The reset controlTowers starts with.
ResetTowers(cr) ==
    [cr EXCEPT !.VFDEnable = [i \in Towers |-> FALSE],
               !.FanSpeed = [i \in Towers |-> 0],
               !.IsolationValveOpen = [i \in Towers |-> FALSE],
               !.IsolationValveClose = [i \in Towers |-> TRUE]]

\* towersToEnable of controlTowers: the lead tower, then the lag towers, as
\* many as are demanded.
towersToEnable(sd) ==
    SubSeq(<<sd.leadTower, sd.lagTowers[1], sd.lagTowers[2]>>, 1, sd.demandedTowers)

\* The k-th pass of the forEach of controlTowers (nothing if towersToEnable is shorter).
EnableDemanded(k, sd, sensorData, st, t, pid) ==
    IF k <= Len(towersToEnable(sd))
    THEN TryEnable(towersToEnable(sd)[k], sd.coolingDemand, sensorData, st, t, pid)
    ELSE st

controlTowers(sd, sensorData, st, t, pid) ==
    Only({ [ ss |-> st4.ss,
             cr |-> [st4.cr EXCEPT !.leadTower = sd.leadTower,
                                   !.activeTowers = sd.demandedTowers,
                                   !.coolingDemand = sd.coolingDemand] ] :
           st4 \in { enforceMinimumRuntimes(sensorData, st3, t) :
           st3 \in { EnableDemanded(3, sd, sensorData, st2, t, pid) :
           st2 \in { EnableDemanded(2, sd, sensorData, st1, t, pid) :
           st1 \in { EnableDemanded(1, sd, sensorData, st0, t, pid) :
           st0 \in { [ss |-> st.ss, cr |-> ResetTowers(st.cr)] } } } } } })

\* ------------------------------------------------------ pump supervisor
\* (pumps.runtimeTracking, a running sum of hours that no decision reads, is left out.)

NoChangeover == [newPump |-> NULL, startTime |-> NULL]

\* findNextAvailablePump: the pump number, or NULL for JavaScript null.
findNextAvailablePump(currentPump) ==
    LET c1 == (currentPump % 3) + 1
        c2 == (c1 % 3) + 1
        c3 == (c2 % 3) + 1
        nextPump == IF c1 \in PumpAvail THEN c1
                    ELSE IF c2 \in PumpAvail THEN c2 ELSE c3
    IN  IF nextPump \in PumpAvail THEN nextPump ELSE NULL

\* The first part of controlPumps: a changeover in progress.
HandleChangeover(st, currentTime) ==
    LET pumpState == st.ss.pumps
    IN  IF pumpState.changeoverState # NoChangeover
        THEN IF currentTime - pumpState.changeoverState.startTime < PUMP_CHANGEOVER_OVERLAP_MS
             THEN [ss |-> st.ss,
                   cr |-> [st.cr EXCEPT
                             !.pumpEnable = [p \in Pumps |->
                                 \/ p = pumpState.activePump
                                 \/ p = pumpState.changeoverState.newPump
                                 \/ @[p]]]]
             ELSE [ss |-> [st.ss EXCEPT
                             !.pumps.activePump = pumpState.changeoverState.newPump,
                             !.pumps.changeoverState = NoChangeover],
                   cr |-> st.cr]
        ELSE st

\* Mutant of checkPumpFailure: the debounce counts 30 s as elapsed.
checkPumpFailure_DebounceAt30(sensorData, pumpState, cr, currentTime) ==
    LET activePumpCurrent == OrDefault(sensorData.pumpCurrents[pumpState.activePump], 0)
        timeSinceLastFailover == currentTime - pumpState.lastFailoverTime
        shouldBeRunning == \/ cr.pumpEnable[pumpState.activePump]
                           \/ (pumpState.changeoverState = NoChangeover
                               /\ ~BYPASS_PUMP_STATUS)
        nextPump == findNextAvailablePump(pumpState.activePump)
    IN  IF /\ shouldBeRunning
           /\ activePumpCurrent < PumpFailCurrent
           /\ timeSinceLastFailover >= FailoverDebounceS
           /\ nextPump # NULL
        THEN [pumpState EXCEPT
                !.changeoverState = [newPump |-> nextPump, startTime |-> currentTime],
                !.failoverCount = @ + 1,
                !.lastFailoverTime = currentTime]
        ELSE pumpState

\* checkPumpFailure: pumpState afterwards.
checkPumpFailure(sensorData, pumpState, cr, currentTime) ==
    LET activePumpCurrent == OrDefault(sensorData.pumpCurrents[pumpState.activePump], 0)
        timeSinceLastFailover == currentTime - pumpState.lastFailoverTime
        shouldBeRunning == \/ cr.pumpEnable[pumpState.activePump]
                           \/ (pumpState.changeoverState = NoChangeover
                               /\ ~BYPASS_PUMP_STATUS)
        nextPump == findNextAvailablePump(pumpState.activePump)
    IN  IF /\ shouldBeRunning
           /\ activePumpCurrent < PumpFailCurrent
           /\ timeSinceLastFailover > FailoverDebounceS
           /\ nextPump # NULL
        THEN [pumpState EXCEPT
                !.changeoverState = [newPump |-> nextPump, startTime |-> currentTime],
                !.failoverCount = @ + 1,
                !.lastFailoverTime = currentTime]
        ELSE pumpState

\* checkPumpRotation: pumpState afterwards.
checkPumpRotation(pumpState, currentTime) ==
    LET nextPump == findNextAvailablePump(pumpState.activePump)
    IN  IF /\ currentTime - pumpState.lastRotationTime >= WEEK_IN_MS
           /\ pumpState.changeoverState = NoChangeover
           /\ nextPump # NULL
           /\ nextPump # pumpState.activePump
        THEN [pumpState EXCEPT
                !.changeoverState = [newPump |-> nextPump, startTime |-> currentTime],
                !.lastRotationTime = currentTime]
        ELSE pumpState

\* The last part of controlPumps: "Enable active pump (or both during changeover)".
EnableActivePump(pumpState, cr) ==
    IF pumpState.changeoverState = NoChangeover
    THEN [cr EXCEPT !.pumpEnable[pumpState.activePump] = TRUE]
    ELSE cr

controlPumps(sensorData, st, currentTime) ==
    IF BYPASS_PUMP_STATUS
    THEN [ss |-> st.ss, cr |-> [st.cr EXCEPT !.pumpEnable[1] = TRUE]]
    ELSE Only({ Only({ [ss |-> [st1.ss EXCEPT !.pumps = p2],
                        cr |-> EnableActivePump(p2, st1.cr)] :
                       p2 \in { checkPumpRotation(p1, currentTime) :
                       p1 \in { checkPumpFailure(sensorData, st1.ss.pumps,
                                                 st1.cr, currentTime) } } }) :
                st1 \in { HandleChangeover(st, currentTime) } })

\* ----------------------------------------------------- valve controller

\* Math.max(2.0, Math.min(10.0, v)); Math.min and Math.max return NaN for NaN.
ClampValve(v) == IF v = NaN THEN NaN ELSE Max(ValveMin, Min(ValveMax, v))

applyFallbackValveControl(outdoorTemp, cr) ==
    IF outdoorTemp < 35
    THEN [cr EXCEPT !.temperingValvePosition = 76]
    ELSE [cr EXCEPT !.temperingValvePosition = 60]

\* Mutant of WarmRegime: exactly 42 F counts as cold.
WarmRegime_Above42(outdoor) == outdoor > 42

\* The warm-weather test of controlValves.
WarmRegime(outdoor) == outdoor >= 42

\* The cold-weather PID branch of controlValves, when the library returns.
ColdPidTempering(sensorData, lastOutput, pid) ==
    LET raw == PidValveOutput(pid)
        floored == IF sensorData.temps.outdoor < 35 THEN Max(raw, 68)
                   ELSE IF sensorData.temps.outdoor < 40 THEN Max(raw, 52)
                   ELSE raw
        lastPosition == IF lastOutput # 0 THEN lastOutput ELSE 50
    IN  IF Abs(floored - lastPosition) > 4
        THEN lastPosition + (IF floored > lastPosition THEN 4 ELSE 0 - 4)
        ELSE floored

\* controlValves throws: the parseFloat of a supplied valve position does
\* (the first two statements of the function).
controlValvesThrows(ui) ==
    \/ parseFloatThrows(ui.bypassValvePosition)
    \/ parseFloatThrows(ui.temperingValvePosition)

controlValves(sensorData, st, ui, pid) ==
    LET cr1 == IF ui.bypassValvePosition # Undef
               THEN [st.cr EXCEPT !.bypassValvePosition = ClampValve(parseFloat(ui.bypassValvePosition))]
               ELSE st.cr
        tp == ColdPidTempering(sensorData, st.ss.pidStates.valve.lastOutput, pid)
    IN  IF ui.temperingValvePosition # Undef
        THEN [ss |-> st.ss,
              cr |-> [cr1 EXCEPT !.temperingValvePosition =
                                    ClampValve(parseFloat(ui.temperingValvePosition))]]
        ELSE IF WarmRegime(sensorData.temps.outdoor)
        THEN [ss |-> [st.ss EXCEPT !.pidStates.valve.integral = 0,
                                   !.pidStates.valve.lastOutput = 20],
              cr |-> [cr1 EXCEPT !.bypassValvePosition = 20,
                                 !.temperingValvePosition = 20]]
        ELSE IF pidAvail /\ cr1.systemEnabled /\ ~pid.throws
        THEN [ss |-> [st.ss EXCEPT !.pidStates.valve.lastOutput = tp],
              cr |-> [cr1 EXCEPT !.temperingValvePosition = tp,
                                 !.bypassValvePosition = 20]]
        ELSE [ss |-> st.ss,
              cr |-> [applyFallbackValveControl(sensorData.temps.outdoor, cr1)
                        EXCEPT !.bypassValvePosition = 20]]

\* ---------------------------------------------------- heater controller

controlHeaters(outdoorTemp, cr) ==
    IF outdoorTemp < 35
    THEN [cr EXCEPT !.HeaterEnable = [i \in Towers |-> TRUE]]
    ELSE IF outdoorTemp > 45
    THEN [cr EXCEPT !.HeaterEnable = [i \in Towers |-> FALSE]]
    ELSE cr

\* ------------------------------------------------------ monitoring pass

CurrentWarningTowers(sensorData) ==
    IF BYPASS_CURRENT_LIMITS THEN {}
    ELSE {TowerOfLeg(k) : k \in {j \in 1..6 :
             /\ sensorData.vfdCurrents[j] > VFD_CURRENT_WARNING
             /\ sensorData.vfdCurrents[j] <= VFD_CURRENT_CRITICAL}}

VibrationWarningTowers(sensorData) ==
    IF BYPASS_VIBRATION_LIMITS THEN {}
    ELSE {i \in Towers : /\ sensorData.vibration[i] > VIBRATION_WARNING_LIMIT
                         /\ sensorData.vibration[i] <= VIBRATION_CRITICAL_LIMIT}

applyCurrentAndVibrationMonitoring(sensorData, cr) ==
    LET cw == CurrentWarningTowers(sensorData)
        vw == VibrationWarningTowers(sensorData)
        warnings == {<<"HIGH_VFD_CURRENT_WARNING", i>> : i \in cw}
                    \cup {<<"HIGH_VIBRATION_WARNING", i>> : i \in vw}
        cr1 == [cr EXCEPT !.FanSpeed = [i \in Towers |->
                   IF i \in cw /\ @[i] > VFD_LOW_SPEED THEN VFD_LOW_SPEED ELSE @[i]]]
    IN  IF warnings # {}
        THEN [cr1 EXCEPT !.alarmStatus = "warning",
                         !.faultConditions = @ \cup warnings]
        ELSE cr1

updateControlResultSummary(cr, sd, sensorData) ==
    LET low == {i \in Towers : cr.FanSpeed[i] > 0 /\ cr.FanSpeed[i] < VFD_MIN_SPEED}
    IN  [cr EXCEPT !.leadTower = sd.leadTower,
                   !.activeTowers = sd.demandedTowers,
                   !.coolingDemand = sd.coolingDemand,
                   !.loopDeltaT = sd.deltaT,
                   !.targetSupplyTemp = sensorData.targetSetpoint,
                   !.FanSpeed = [i \in Towers |-> IF i \in low THEN 0 ELSE @[i]],
                   !.VFDEnable = [i \in Towers |-> IF i \in low THEN FALSE ELSE @[i]]]

\* ------------------------------------------- processCoolingTowerControl

\* The statements from controlValves to the return, with the pair st2 that
\* controlTowers left.
FinishSequence(in, sensorData, st2, sd) ==
    Only({ [ss |-> st5.ss,
            out |-> updateControlResultSummary(st5.cr, sd, sensorData),
            path |-> "auto"] :
           st5 \in { [st4 EXCEPT !.cr = applyCurrentAndVibrationMonitoring(sensorData, @)] :
           st4 \in { [st3 EXCEPT !.cr = controlHeaters(sensorData.temps.outdoor, @)] :
           st3 \in { controlValves(sensorData, st2, in.ui, in.pid) } } } })

\* Mutant of ControlSequence: the handler returns the controlResult as the
\* statements before the exception left it.
ControlSequence_ReturnsPartialResult(in, sensorData, s1, sd, cr, t) ==
    Only({ IF controlValvesThrows(in.ui)
           THEN [ss |-> st2.ss, out |-> st2.cr, path |-> "error"]
           ELSE FinishSequence(in, sensorData, st2, sd) :
           st2 \in { controlTowers(sd, sensorData, st1, t, in.pid) :
           st1 \in { controlPumps(sensorData, [ss |-> s1, cr |-> cr], t) } } })

\* The automatic control sequence (from performLeadTowerRotation to the return).
\* The statements from calculateStaging on, with the staging decision sd made
\* on the state s1 that performLeadTowerRotation left.  An exception thrown by
\* controlValves is caught by the handler of processCoolingTowerControl, which
\* returns createSafeDefaultState; stateStorage, updated in place by the
\* statements before, stays as they left it.
ControlSequence(in, sensorData, s1, sd, cr, t) ==
    Only({ IF controlValvesThrows(in.ui)
           THEN [ss |-> st2.ss, out |-> createSafeDefaultState, path |-> "error"]
           ELSE FinishSequence(in, sensorData, st2, sd) :
           st2 \in { controlTowers(sd, sensorData, st1, t, in.pid) :
           st1 \in { controlPumps(sensorData, [ss |-> s1, cr |-> cr], t) } } })

AutomaticControl(in, sensorData, s, cr, t) ==
    Only({ Only({ ControlSequence(in, sensorData, s1, sd, cr, t) :
                  sd \in {calculateStaging(sensorData, s1)} }) :
           s1 \in {performLeadTowerRotation(s, t)} })

\* The call from applyManualOverrides on, with the controlResult cr that
\* passed the safety gate.
OverriddenControl(in, parsed, cr, t) ==
    IF applyManualOverridesThrows(in.ui)
    THEN [ss |-> parsed.ss, out |-> createSafeDefaultState, path |-> "error"]
    ELSE
    Only({ IF ~cr1.systemEnabled \/ cr1.controlMode # "auto"
           THEN [ss |-> parsed.ss, out |-> cr1, path |-> "skip"]
           ELSE AutomaticControl(in, parsed.sensorData, parsed.ss, cr1, t) :
           cr1 \in {applyManualOverrides(in.ui, cr)} })

\* Mutant of GatedControl: the safety return records stop_time = now for every
\* tower that was running.
GatedControl_SafetyStopsTimers(in, parsed, t) ==
    Only({ IF ~safetyResult.safe
           THEN [ss |-> [parsed.ss EXCEPT !.towers.timers = [i \in Towers |->
                            IF @[i].startTime # NULL
                            THEN [startTime |-> NULL, stopTime |-> t]
                            ELSE @[i]]],
                 out |-> safetyResult.controlResult, path |-> "safety"]
           ELSE IF in.uiNull
           THEN [ss |-> parsed.ss, out |-> createSafeDefaultState, path |-> "error"]
           ELSE OverriddenControl(in, parsed, safetyResult.controlResult, t) :
           safetyResult \in
               { performSafetyChecks(parsed.sensorData,
                                     initializeControlResult(parsed.sensorData)) } })

\* The call from initializeControlResult on, with the result of parseSensorData.
GatedControl(in, parsed, t) ==
    Only({ IF ~safetyResult.safe
           THEN [ss |-> parsed.ss, out |-> safetyResult.controlResult, path |-> "safety"]
           ELSE IF in.uiNull
           THEN [ss |-> parsed.ss, out |-> createSafeDefaultState, path |-> "error"]
           ELSE OverriddenControl(in, parsed, safetyResult.controlResult, t) :
           safetyResult \in
               { performSafetyChecks(parsed.sensorData,
                                     initializeControlResult(parsed.sensorData)) } })

\* One call at instant t with the caller's state s: the state afterwards, the
\* value returned and the return taken.  in.dataNull and in.uiNull are a caller
\* passing null for data or for uiCommands: reading a property of null throws.
\* An exception thrown by parseSensorData is caught like every other, before
\* the safety checks have run: the call returns createSafeDefaultState.
processCoolingTowerControl(in, s, t) ==
    Only({ IF in.dataNull \/ parseSensorDataThrowsEarly(in.data)
           THEN [ss |-> s0, out |-> createSafeDefaultState, path |-> "error"]
           ELSE Only({ IF parseSensorDataThrows(in.data)
                       THEN [ss |-> parsed.ss, out |-> createSafeDefaultState,
                             path |-> "error"]
                       ELSE GatedControl(in, parsed, t) :
                       parsed \in {parseSensorData(in.data, s0)} }) :
           s0 \in {initializeState(s, t)} })

\* ------------------------------------------------------------- inputs

\* The arguments of one call: the seconds since the previous call, the sensor
\* snapshot (pumpI[p] is pump p's current: CH8, CH5, CH6), the UI commands, and
\* what the PID library returns to the calls made in this tick.
NoUi ==
    [ systemEnabled |-> "undef", controlMode |-> "undef",
      VFDEnable |-> [i \in Towers |-> "undef"],
      FanSpeed |-> [i \in Towers |-> Undef],
      HeaterEnable |-> [i \in Towers |-> "undef"],
      bypassValvePosition |-> Undef, temperingValvePosition |-> Undef ]

NominalData ==
    [ CH1 |-> 85, CH2 |-> 75, CH9 |-> 85, CH10 |-> 75,
      outdoorTemp |-> 75, userSetpoint |-> 75, targetSupplyTemp |-> Undef,
      AI |-> [k \in 1..6 |-> 0],
      pumpI |-> [p \in Pumps |-> 20],
      WTV |-> [i \in Towers |-> 0] ]

NominalInput ==
    [ dt |-> 7, dataNull |-> FALSE, uiNull |-> FALSE,
      data |-> NominalData, ui |-> NoUi,
      pid |-> [throws |-> FALSE, tower |-> [i \in Towers |-> VFD_MIN_SPEED], valve |-> ValveMin] ]

\* A call after dt seconds with heat-pump supply reading hp (CH2), everything
\* else nominal; the tower PID asks for full speed above setpoint and for
\* minimum speed otherwise.
SensorInput(dt, hp) ==
    [NominalInput EXCEPT
        !.dt = dt,
        !.data.CH2 = hp,
        !.pid.tower = [i \in Towers |-> IF hp > 75 THEN VFD_MAX_SPEED ELSE VFD_MIN_SPEED]]

\* Seconds between calls: the caller's period, one ramp delay, the off
\* cooldown, the minimum runtime.
TickSteps == {7, 15, 180, 420}

\* CH2 readings: deltaT = -17, -8, 0, +15, +25 against the default setpoint 75.
HpSupplyReadings == {58, 67, 75, 90, 100}

\* A UI command set that overrides tower i's enable and fan speed.
TowerOverride(i, enable, speed, mode) ==
    [NoUi EXCEPT !.controlMode = mode, !.VFDEnable[i] = enable, !.FanSpeed[i] = speed]

FaultInputs ==
    { [SensorInput(7, 90) EXCEPT !.data.WTV[2] = 80],
      [SensorInput(7, 90) EXCEPT !.data.AI[1] = 46,
                                 !.ui = TowerOverride(1, "true", 40, "manual")],
      [SensorInput(7, 90) EXCEPT !.data.pumpI[3] = 50,
                                 !.ui = TowerOverride(2, "true", 40, "undef")],
      [SensorInput(15, 90) EXCEPT !.data.AI[4] = 42, !.data.WTV[1] = 50] }

UiInputs ==
    { [SensorInput(7, 75) EXCEPT !.ui = TowerOverride(1, "true", 10, "manual")],
      [SensorInput(7, 100) EXCEPT !.ui = TowerOverride(1, "true", 90, "undef")],
      [SensorInput(7, 75) EXCEPT !.ui = TowerOverride(2, "true", 40, "undef")],
      [SensorInput(7, 90) EXCEPT !.ui.systemEnabled = "false",
                                 !.ui.VFDEnable[2] = "false"],
      [SensorInput(7, 75) EXCEPT !.data.outdoorTemp = 30],
      [SensorInput(7, 75) EXCEPT !.data.outdoorTemp = 30,
                                 !.ui.controlMode = "manual"] }

\* Calls that throw: a null argument, and a reading that cannot be converted
\* (in a snapshot that also holds a critical vibration or VFD current).
ErrorInputs ==
    { [NominalInput EXCEPT !.dataNull = TRUE],
      [NominalInput EXCEPT !.uiNull = TRUE],
      [SensorInput(7, 90) EXCEPT !.data.WTV[1] = 80, !.data.CH10 = Unconvertible],
      [SensorInput(7, 90) EXCEPT !.data.AI[1] = 46, !.data.userSetpoint = Unconvertible] }

Inputs ==
    {SensorInput(dt, hp) : dt \in TickSteps, hp \in HpSupplyReadings}
    \cup FaultInputs \cup UiInputs \cup ErrorInputs

\* ----------------------------------------------------- the state machine

\* The value of out before the first call: nothing has been commanded.
NoOutput == [createSafeDefaultState EXCEPT !.controlMode = "none",
                                         !.alarmStatus = "none",
                                         !.faultConditions = {}]

InitWith(avail, pids) ==
    /\ now = StartInstant
    /\ ticks = 0
    /\ towerAvail \in avail
    /\ pidAvail \in pids
    /\ ss = EmptyState
    /\ out = NoOutput
    /\ path = "none"
    /\ inp = NominalInput
    /\ offAt = [i \in Towers |-> NULL]
    /\ coldSince = NULL

\* The availability flags of the source (tower 3 down for repair), with the
\* PID library present or absent.
Init == InitWith({{1, 2}}, BOOLEAN)

\* One call of processCoolingTowerControl with arguments in.
Step(in) ==
    \E t \in {now + in.dt} :
        /\ now' = t
        /\ ticks' = ticks + 1
        /\ inp' = in
        /\ UNCHANGED <<towerAvail, pidAvail>>
        /\ \E r \in {processCoolingTowerControl(in, ss, t)} :
              /\ ss' = r.ss
              /\ out' = r.out
              /\ path' = r.path
              /\ offAt' = [i \in Towers |->
                              IF out.VFDEnable[i] /\ ~r.out.VFDEnable[i] THEN t ELSE offAt[i]]
              /\ coldSince' = IF r.path = "auto" /\ Less(r.out.loopDeltaT, 0 - 15)
                              THEN (IF coldSince # NULL THEN coldSince ELSE t)
                              ELSE NULL

\* Calls with every kind of argument: sensor snapshots, critical faults,
\* warnings, UI overrides, null arguments.
Tick == ticks < MaxTicks /\ \E in \in Inputs : Step(in)

Next == Tick

Spec == Init /\ [][Next]_vars

\* ------------------------------------------- automatic operation only

\* Sensor snapshots without faults and without UI commands: every call runs
\* the automatic control sequence.
AutoInputs == {SensorInput(dt, hp) : dt \in {7, 15, 420}, hp \in {58, 67, 75, 90}}

TickAuto == ticks < MaxAutoTicks /\ \E in \in AutoInputs : Step(in)

SpecAuto == Init /\ [][TickAuto]_vars

\* ------------------------------------------------------ pump supervisor

\* A call after dt seconds with the three pump currents given, no tower demand,
\* no fault and no UI command: every call runs the pump supervisor.
PumpInput(dt, currents) == [NominalInput EXCEPT !.dt = dt, !.data.pumpI = currents]

\* Pump currents: none running, all healthy, pump 1 low, pump 2 low.
PumpCurrentReadings ==
    { [p \in Pumps |-> 0],
      [p \in Pumps |-> 20],
      [p \in Pumps |-> IF p = 1 THEN 2 ELSE 20],
      [p \in Pumps |-> IF p = 2 THEN 2 ELSE 20] }

PumpInputs ==
    {PumpInput(dt, c) : dt \in {3, 7, 31, WEEK_IN_MS}, c \in PumpCurrentReadings}

TickPumps == ticks < MaxPumpTicks /\ \E in \in PumpInputs : Step(in)

InitPumps == InitWith({{1, 2}}, {TRUE})

SpecPumps == InitPumps /\ [][TickPumps]_vars

\* ------------------------------------------------------ pump failover

\* Calls 7, 23 or 31 s apart (7 + 23 = 30 s, the debounce exactly) with pump
\* currents on both sides of the 10 A failure threshold: none running, all at
\* 9 A, all at 10 A, pump 1 at 9 A beside healthy pumps.
FailoverInputs ==
    {PumpInput(dt, c) : dt \in {7, 23, 31},
                        c \in { [p \in Pumps |-> 0],
                                [p \in Pumps |-> 9],
                                [p \in Pumps |-> 10],
                                [p \in Pumps |-> IF p = 1 THEN 9 ELSE 20] }}

TickFailover == ticks < MaxFailoverTicks /\ \E in \in FailoverInputs : Step(in)

SpecFailover == InitPumps /\ [][TickFailover]_vars

\* ----------------------------------------------------- valve controller

\* A call with outdoor temperature oat, the valve PID returning v, and the UI
\* valve positions given (Undef: not supplied).
ValveInput(oat, v, bypass, tempering) ==
    [NominalInput EXCEPT !.data.outdoorTemp = oat,
                         !.pid.valve = v,
                         !.ui.bypassValvePosition = bypass,
                         !.ui.temperingValvePosition = tempering]

ValveInputs ==
    {ValveInput(oat, v, Undef, Undef) : oat \in {30, 37, 41, 42, 50}, v \in {20, 60, 100}}
    \cup { ValveInput(30, 60, 5, Undef),
           ValveInput(50, 60, 130, Undef),
           ValveInput(37, 60, Undef, 150),
           ValveInput(37, 60, 70, 10),
           ValveInput(37, 60, Undef, NonNumeric),
           [ValveInput(30, 100, Undef, Undef) EXCEPT !.pid.throws = TRUE],
           [ValveInput(37, 100, Undef, 90) EXCEPT !.ui.controlMode = "manual"],
           [ValveInput(30, 100, Undef, Undef) EXCEPT !.data.WTV[1] = 80],
           [ValveInput(50, 100, Undef, Undef) EXCEPT !.data.WTV[1] = 80],
           [ValveInput(50, 100, Undef, Undef) EXCEPT !.ui.controlMode = "manual"],
           [NominalInput EXCEPT !.uiNull = TRUE] }

TickValves == ticks < MaxValveTicks /\ \E in \in ValveInputs : Step(in)

SpecValves == Init /\ [][TickValves]_vars

\* ------------------------------------------ heaters, automatic operation

\* Sensor snapshots that differ in the outdoor temperature, around the two
\* heater thresholds, and in what the valve PID returns; no fault and no UI
\* command.
HeaterInputs ==
    {[NominalInput EXCEPT !.data.outdoorTemp = oat, !.pid.valve = v] :
        oat \in {30, 35, 40, 45, 46}, v \in {20, 100}}

TickHeaters == ticks < MaxHeaterTicks /\ \E in \in HeaterInputs : Step(in)

SpecHeaters == Init /\ [][TickHeaters]_vars

\* ------------------------------------- every availability configuration

\* Calls a caller's period or just over a week apart, without and with
\* cooling demand.
AvailInputs == {SensorInput(dt, hp) : dt \in {7, WEEK_IN_MS + 1}, hp \in {75, 90}}

TickAvail == ticks < MaxAvailTicks /\ \E in \in AvailInputs : Step(in)

\* TOWER_1_AVAILABLE .. TOWER_3_AVAILABLE set any way that leaves a tower available.
InitAvail == InitWith((SUBSET Towers) \ {{}}, {TRUE})

SpecAvail == InitAvail /\ [][TickAvail]_vars

\* ------------------------------------------------- staging thresholds

\* A call 7 s after the previous one with HP supply hp (CH2), tower supply
\* ts (CH10) and setpoint sp.
StagingInput(hp, ts, sp) ==
    [SensorInput(7, hp) EXCEPT !.data.CH10 = ts, !.data.userSetpoint = sp]

\* Against setpoint 75: HP supply on both sides of the 65 F limit and of
\* deltaT = -5, 10, 20, 30, 35.  Against setpoint 90: deltaT = -16 and -15
\* with HP supply above 65 F.  And tower supply below 50 F under demand.
StagingInputs ==
    {StagingInput(hp, 75, 75) :
        hp \in {64, 65, 69, 70, 84, 85, 94, 95, 104, 105, 109, 110}}
    \cup {StagingInput(74, 75, 90), StagingInput(75, 75, 90), StagingInput(95, 49, 75)}

TickStaging == ticks < MaxStagingTicks /\ \E in \in StagingInputs : Step(in)

SpecStaging == InitPumps /\ [][TickStaging]_vars

\* ------------------------------------------- shutdown after the runtime

\* Calls 7 s or one minimum runtime apart, with (HP supply, setpoint):
\* demand (90, 75); deltaT -15 and HP supply 60 (60, 75); deltaT -11 and HP
\* supply 64 (64, 75); deltaT -15 with HP supply 75 (75, 90); deltaT 0 with
\* HP supply 60 (60, 60).
EnforcerInputs ==
    {[SensorInput(dt, r[1]) EXCEPT !.data.userSetpoint = r[2]] :
        dt \in {7, 420},
        r \in {<<90, 75>>, <<60, 75>>, <<64, 75>>, <<75, 90>>, <<60, 60>>}}

TickEnforcer == ticks < MaxEnforcerTicks /\ \E in \in EnforcerInputs : Step(in)

SpecEnforcer == InitPumps /\ [][TickEnforcer]_vars

\* ------------------------------------------- startup and hard limits

\* Calls 7 s or one minimum runtime apart with (HP supply, tower supply,
\* setpoint): deltaT 0, 10, 15 and 30 with the loop inside its limits; deltaT
\* 20 with tower supply 49 F; deltaT 14 with HP supply 64 F; deltaT -15.
StartupInputs ==
    {[StagingInput(r[1], r[2], r[3]) EXCEPT !.dt = dt] :
        dt \in {7, 420},
        r \in {<<75, 75, 75>>, <<85, 75, 75>>, <<90, 75, 75>>, <<105, 75, 75>>,
               <<95, 49, 75>>, <<64, 75, 50>>, <<60, 75, 75>>}}

TickStartup == ticks < MaxStartupTicks /\ \E in \in StartupInputs : Step(in)

\* The availability flags of the source, or all three towers available.
InitStartup == InitWith({{1, 2}, Towers}, BOOLEAN)

SpecStartup == InitStartup /\ [][TickStartup]_vars

\* ------------------------------------------------------- lead rotation

\* Calls a caller's period, exactly one week or just over a week apart,
\* without and with cooling demand.
RotationInputs ==
    {SensorInput(dt, hp) : dt \in {7, WEEK_IN_MS, WEEK_IN_MS + 1}, hp \in {75, 90}}

TickRotation == ticks < MaxRotationTicks /\ \E in \in RotationInputs : Step(in)

\* TOWER_1_AVAILABLE .. TOWER_3_AVAILABLE set any way, all false included.
InitRotation == InitWith(SUBSET Towers, {TRUE})

SpecRotation == InitRotation /\ [][TickRotation]_vars

\* ----------------------------------------------------- warning levels

\* Calls under cooling demand (deltaT 15, the tower PID asking for full
\* speed), one ramp delay or one minimum runtime apart: without warning, with
\* tower 1's leg A current at 42 A, with tower 1's vibration at 5.0 mm/s.
WarningInputs ==
    { SensorInput(15, 90),
      SensorInput(420, 90),
      [SensorInput(15, 90) EXCEPT !.data.AI[1] = 42],
      [SensorInput(15, 90) EXCEPT !.data.WTV[1] = 50] }

TickWarning == ticks < MaxWarningTicks /\ \E in \in WarningInputs : Step(in)

SpecWarning == InitPumps /\ [][TickWarning]_vars

\* ----------------------------------------------------------- ramp filter

\* Calls with the tower PID asking for full speed under demand (HP supply 90,
\* deltaT 15) one ramp delay, one cooldown or one minimum runtime apart; with
\* the PID asking for minimum speed while the tower continues (HP supply 72,
\* deltaT -3) 15 s or 20 s apart; and a shutdown reading (HP supply 58).
RampInputs ==
    { SensorInput(15, 90), SensorInput(180, 90), SensorInput(420, 90),
      SensorInput(15, 72), SensorInput(20, 72),
      SensorInput(7, 58) }

TickRamp == ticks < MaxRampTicks /\ \E in \in RampInputs : Step(in)

SpecRamp == InitPumps /\ [][TickRamp]_vars

\* --------------------------------------------------------- sensor sanitizer

\* Raw loop-temperature readings: an absent key, the number 0, the text "0",
\* null or empty text, just outside and just inside the accepted range
\* [40, 120], and text that is not a number.
RawReadings == {Undef, 0, ZeroText, EmptyText, 39, 40, 120, 121, NonNumeric}

\* Calls 7 s apart whose tower-supply (CH10) and heat-pump-supply (CH2)
\* readings are raw values of every kind, or whose tower-return (CH9) and
\* heat-pump-return (CH1) readings are; no fault and no UI command.
SanitizerInputs ==
    { [NominalInput EXCEPT !.data.CH10 = a, !.data.CH2 = b] : a, b \in RawReadings }
    \cup { [NominalInput EXCEPT !.data.CH9 = a, !.data.CH1 = b] : a, b \in RawReadings }

TickSanitizer == ticks < MaxSanitizerTicks /\ \E in \in SanitizerInputs : Step(in)

SpecSanitizer == InitPumps /\ [][TickSanitizer]_vars

\* ------------------------------------------------- unavailable towers

\* Calls 7 s, one minimum runtime or just over a week apart with deltaT = -17,
\* 0, 15 and 30 (shutdown, continuation, one tower, three towers), no fault
\* and no UI command.
UnavailInputs == {SensorInput(dt, hp) : dt \in {7, 420, WEEK_IN_MS + 1}, hp \in {58, 75, 90, 105}}

TickUnavail == ticks < MaxUnavailTicks /\ \E in \in UnavailInputs : Step(in)

\* Every setting of the three TOWER_n_AVAILABLE flags.
InitUnavail == InitWith(SUBSET Towers, {TRUE})

SpecUnavail == InitUnavail /\ [][TickUnavail]_vars

\* ------------------------------------------------------------ shutdown

\* Calls one caller period or one minimum runtime apart with deltaT = -17
\* (shutdown), 0 and 15 (one tower), no fault and no UI command.
ShutdownInputs == {SensorInput(dt, hp) : dt \in {CallerPeriodS, MinRuntimeS}, hp \in {58, 75, 90}}

TickShutdown == ticks < MaxShutdownTicks /\ \E in \in ShutdownInputs : Step(in)

SpecShutdown == InitPumps /\ [][TickShutdown]_vars

\* ------------------------------------------------ lag towers, liveness

\* Calls 7 s, one minimum runtime or more than a week apart with deltaT = 0,
\* 15, 20 and 30, no fault and no UI command.
LagInputs == {SensorInput(dt, hp) : dt \in {7, 420, WEEK_IN_MS + 1}, hp \in {75, 90, 95, 105}}

TickLag == ticks < MaxLagTicks /\ \E in \in LagInputs : Step(in)

\* The caller goes on calling under sustained demand (deltaT = 20 or 30): the
\* calls of more than a week, of which the one that finds the rotation interval
\* elapsed is followed.
TickSustained ==
    /\ ticks >= MaxLagTicks
    /\ ticks < MaxLagTicks + MaxLagWeeks
    /\ \E hp \in {95, 105} : Step(SensorInput(WEEK_IN_MS + 1, hp))

\* All three towers available.
InitLag == InitWith({Towers}, {TRUE})

\* A call is made; ticks counts the calls.  Every step of TickLag and of
\* TickSustained is one, and one of the two is possible as long as ticks is
\* below MaxLagTicks + MaxLagWeeks.
Called == ticks < MaxLagTicks + MaxLagWeeks /\ ticks' = ticks + 1

\* The caller calls periodically: a call that can be made is made.
SpecLag == InitLag /\ [][TickLag \/ TickSustained]_vars /\ WF_ticks(Called)

\* ------------------------------------------------------ exceptions
\* (continued by the claims below)

\* Calls that throw at different statements, between calls that do not: null
\* data or a reading that cannot be converted (parseSensorData throws, before
\* or after it has updated lastGoodTemps), null uiCommands (applyManualOverrides
\* throws; with a critical fault the call returns before), a fan speed or a
\* valve position whose parseFloat throws, under demand (the tower commander
\* has started a tower), with a failed pump (the pump supervisor has recorded
\* a changeover) and in manual mode (controlValves is not reached).
ThrowingInputs ==
    { [NominalInput EXCEPT !.dataNull = TRUE],
      [NominalInput EXCEPT !.uiNull = TRUE],
      [NominalInput EXCEPT !.uiNull = TRUE, !.data.WTV[1] = 80],
      [SensorInput(7, 90) EXCEPT !.data.CH9 = Unconvertible],
      [SensorInput(7, 90) EXCEPT !.data.WTV[2] = Unconvertible],
      [SensorInput(7, 90) EXCEPT !.ui.FanSpeed[1] = Unconvertible],
      [SensorInput(7, 90) EXCEPT !.ui.temperingValvePosition = Unconvertible],
      [SensorInput(7, 75) EXCEPT !.ui.bypassValvePosition = Unconvertible,
                                 !.data.pumpI[1] = 2],
      [SensorInput(7, 90) EXCEPT !.ui.temperingValvePosition = Unconvertible,
                                 !.ui.controlMode = "manual"] }

ErrorPathInputs ==
    {SensorInput(dt, hp) : dt \in {7, 420}, hp \in {60, 75, 90}} \cup ThrowingInputs

TickErrors == ticks < MaxErrorTicks /\ \E in \in ErrorPathInputs : Step(in)

SpecErrors == Init /\ [][TickErrors]_vars

\* ================================================================ claims

\* The latest call was given a sensor snapshot with a critical fault: a tower
\* vibration above 7.1 mm/s, a VFD leg current above 45 A or a pump current
\* above 45 A (no bypass flag is set in the configuration).
CriticalFaultInInput ==
    /\ ticks > 0
    /\ ~inp.dataNull
    /\ \/ \E i \in Towers : inp.data.WTV[i] > 71
       \/ \E k \in 1..6 : inp.data.AI[k] > 45
       \/ \E p \in Pumps : inp.data.pumpI[p] > 45

\* The latest call ran the automatic control sequence to its end.
AutoTick == ticks > 0 /\ path = "auto"

InMinimumRuntime(i) ==
    ss.towers.timers[i].startTime # NULL /\ now - ss.towers.timers[i].startTime < 420

InOffCooldown(i) ==
    ss.towers.timers[i].stopTime # NULL /\ now - ss.towers.timers[i].stopTime < 180

\* C1 as claimed: whenever the tick's snapshot holds a critical fault, the
\* returned output has every tower VFD enable false, every fan speed 0, every
\* isolation-valve close command true, every pump enable false, tempering and
\* bypass at 2.0 V and alarmStatus critical, whatever the UI commands and the
\* carried state.
C1_SafeShutdown ==
    CriticalFaultInInput =>
        /\ \A i \in Towers : /\ ~out.VFDEnable[i]
                             /\ out.FanSpeed[i] = 0
                             /\ out.IsolationValveClose[i]
        /\ \A p \in Pumps : ~out.pumpEnable[p]
        /\ out.temperingValvePosition = 20
        /\ out.bypassValvePosition = 20
        /\ out.alarmStatus = "critical"

\* C2 as claimed: at the end of every tick, for all inputs, every tower whose
\* start_time is set with now - start_time < 420 s has its VFD enable
\* commanded true.  The two returns for which the spec itself prescribes an
\* output with every enable off, the safe shutdown on a critical fault and
\* the safe output of the exception handler, are left out of the statement:
\* it is about every other tick, in every control mode.
C2_MinRuntimeHold ==
    (ticks > 0 /\ path \notin {"safety", "error"}) =>
        \A i \in Towers : InMinimumRuntime(i) => out.VFDEnable[i]

\* C3 as claimed: at the end of every tick, every tower whose stop_time is set
\* with now - stop_time < 180 s has its VFD enable commanded false, also when
\* staging demands it and when a UI tower-enable override is supplied.
C3_OffCooldownHold ==
    ticks > 0 => \A i \in Towers : InOffCooldown(i) => ~out.VFDEnable[i]

\* C7 as claimed: at the end of every tick each tower's commanded fan speed is
\* 0 V or within [2.6, 4.8] V, UI fan-speed overrides and non-auto modes included.
C7_FanSpeedRange ==
    ticks > 0 => \A i \in Towers :
        \/ out.FanSpeed[i] = 0
        \/ (out.FanSpeed[i] >= 26 /\ out.FanSpeed[i] <= 48)

\* C8: at the end of every tick, on every return path, no tower has
\* isolation-valve-open and isolation-valve-close both true.
C8_ValveCommandsExclusive ==
    \A i \in Towers : ~(out.IsolationValveOpen[i] /\ out.IsolationValveClose[i])

\* The runtime enforcer has reversed the commander's reset of a tower that
\* staging did not demand: its valve is commanded open, not closed.
C8_Witness ==
    /\ AutoTick
    /\ out.activeTowers = 0
    /\ \E i \in Towers : out.VFDEnable[i] /\ out.IsolationValveOpen[i]
                         /\ ~out.IsolationValveClose[i]

\* C4 as claimed: whenever a tower's commanded VFD enable goes from true on one
\* tick to false on the next, that tower's enable stays false on every tick of
\* the following 180 s.
C4_AntiShortCycle ==
    \A i \in Towers :
        (offAt[i] # NULL /\ now - offAt[i] < 180) => ~out.VFDEnable[i]

NumPumpsEnabled == Cardinality({p \in Pumps : out.pumpEnable[p]})

ChangeoverYoungerThanOverlap ==
    /\ ss.pumps.changeoverState # NoChangeover
    /\ now - ss.pumps.changeoverState.startTime < 5

\* C5 as claimed: at the end of every tick the number of pump enables that are
\* true is exactly 1, or exactly 2 only while a changeover record younger than
\* 5 s exists; it is never 0 and never 3.
C5_PumpCount ==
    ticks > 0 =>
        \/ NumPumpsEnabled = 1
        \/ (NumPumpsEnabled = 2 /\ ChangeoverYoungerThanOverlap)

\* C6 as claimed: in the tick that creates a pump changeover record, and on
\* every later tick while now - start_instant < 5 s, both the outgoing active
\* pump and new_pump are enabled.
C6_BothPumpsDuringChangeover ==
    (AutoTick /\ ChangeoverYoungerThanOverlap) =>
        /\ out.pumpEnable[ss.pumps.activePump]
        /\ out.pumpEnable[ss.pumps.changeoverState.newPump]

\* C9 as claimed: at the end of every tick, for all inputs, temperingValvePosition
\* and bypassValvePosition both lie in [2.0, 10.0] V (the PID library returning
\* an output within its configured range).
C9_ValveRange ==
    ticks > 0 =>
        /\ out.temperingValvePosition >= 20 /\ out.temperingValvePosition <= 100
        /\ out.bypassValvePosition >= 20 /\ out.bypassValvePosition <= 100

\* C10 as claimed: for every tower whose VFD enable is true on two consecutive
\* ticks, the commanded fan speeds of the two ticks differ by at most 0.3 V.
C10_RampLimitAcrossTicks ==
    [][\A i \in Towers :
          (out.VFDEnable[i] /\ out'.VFDEnable[i]) =>
              (out'.FanSpeed[i] - out.FanSpeed[i] <= 3
               /\ out.FanSpeed[i] - out'.FanSpeed[i] <= 3)]_vars

\* The latest call took the PID branch of the cold regime of controlValves.
ColdPidPath ==
    /\ AutoTick
    /\ pidAvail
    /\ ~inp.pid.throws
    /\ inp.ui.temperingValvePosition = Undef
    /\ ~WarmRegime(out.outdoorTemp)

\* C11 as claimed: on every tick that takes the cold-regime PID path with
\* outdoor temperature below 35 F, the commanded tempering valve position is
\* at least 6.8 V, whatever the prior valve last_output was.
C11_ColdFloor ==
    (ColdPidPath /\ out.outdoorTemp < 35) => out.temperingValvePosition >= 68

NoValveOverride ==
    \/ inp.uiNull
    \/ (inp.ui.bypassValvePosition = Undef /\ inp.ui.temperingValvePosition = Undef)

\* C12: on every tick with outdoor temperature >= 42 F and no UI valve
\* override, temperingValvePosition and bypassValvePosition both equal 2.0 V,
\* whichever return the call leaves through.
C12_WarmValvesClosed ==
    (ticks > 0 /\ inp.data.outdoorTemp >= 42 /\ NoValveOverride) =>
        /\ out.temperingValvePosition = 20
        /\ out.bypassValvePosition = 20

\* An automatic tick at exactly 42 F that closed both valves and reset the
\* valve PID state, with the PID library asking for a fully open valve.
C12_Witness ==
    /\ AutoTick
    /\ pidAvail
    /\ inp.data.outdoorTemp = 42
    /\ inp.pid.valve = 100
    /\ NoValveOverride
    /\ out.temperingValvePosition = 20
    /\ out.bypassValvePosition = 20
    /\ ss.pidStates.valve.lastOutput = 20
    /\ ss.pidStates.valve.integral = 0

\* C13 as claimed: between two consecutive ticks without UI heater override, a
\* heater goes OFF->ON only on a tick with outdoor < 35 F, goes ON->OFF only
\* on a tick with outdoor > 45 F, and keeps its state while outdoor is within
\* [35, 45] F.
C13_HeaterHysteresis ==
    [][(ticks > 0 /\ \A i \in Towers : inp'.ui.HeaterEnable[i] = "undef") =>
          \A i \in Towers :
             /\ (~out.HeaterEnable[i] /\ out'.HeaterEnable[i])
                    => inp'.data.outdoorTemp < 35
             /\ (out.HeaterEnable[i] /\ ~out'.HeaterEnable[i])
                    => inp'.data.outdoorTemp > 45
             /\ (inp'.data.outdoorTemp >= 35 /\ inp'.data.outdoorTemp <= 45)
                    => out'.HeaterEnable[i] = out.HeaterEnable[i]]_vars

\* C14 as claimed: on every tick without a critical fault whose outdoor
\* temperature is below 35 F, all three heater enables are true (absent a UI
\* heater override), also when systemEnabled is false or controlMode is not auto.
C14_FreezeProtectionAnyMode ==
    ( /\ ticks > 0
      /\ ~inp.dataNull
      /\ ~inp.uiNull
      /\ ~CriticalFaultInInput
      /\ inp.data.outdoorTemp < 35
      /\ \A i \in Towers : inp.ui.HeaterEnable[i] = "undef" )
    => \A i \in Towers : out.HeaterEnable[i]

\* C15: after any sequence of ticks from the empty carried state, for every
\* tower at most one of start_time and stop_time is non-null.
C15_TimersExclusive ==
    \A i \in Towers :
        ~(ss.towers.timers[i].startTime # NULL /\ ss.towers.timers[i].stopTime # NULL)

\* A tower restarted on this tick after the enforcer had stopped it: its
\* start_time is now and the stop_time the enforcer wrote has been cleared.
C15_Witness ==
    \E i \in Towers :
        /\ AutoTick
        /\ offAt[i] # NULL
        /\ ss.towers.timers[i].startTime = now
        /\ ss.towers.timers[i].stopTime = NULL
        /\ out.VFDEnable[i]

\* C16 as claimed: in every state after a call, for every availability
\* configuration with at least one available tower, lead_tower is an available
\* tower, also before the first weekly rotation.
C16_LeadTowerAvailable ==
    (ss.inited /\ towerAvail # {}) => ss.towers.leadTower \in towerAvail

\* The decision table of the staging decider, evaluated top-down: the pair
\* (demanded towers, cooling demand %) for deltaT dT, HP supply hp, tower
\* supply ts and the set running of towers that have a start_time.
StagingTable(dT, hp, ts, running) ==
    IF dT < 0 - 15 \/ hp < 65 \/ ts < 50 THEN <<0, 0>>
    ELSE IF running # {} /\ dT >= 0 - 5
    THEN <<Max(1, Cardinality(running)), Max(28, Min(100, 28 + 3 * dT))>>
    ELSE IF dT >= 35 THEN <<3, 100>>
    ELSE IF dT >= 30 THEN <<3, 75>>
    ELSE IF dT >= 20 THEN <<2, 60>>
    ELSE IF dT >= 10 THEN <<1, Max(28, Min(50, 28 + 2 * (dT - 10)))>>
    ELSE <<0, 0>>

\* C17: on every call that runs the automatic sequence, the staging decision
\* (reported as activeTowers and coolingDemand) equals the decision table
\* applied to the call's deltaT = HP supply - setpoint, HP supply, tower
\* supply, and the towers that had a start_time when the call began.
C17_StagingEqualsTable ==
    [][path' = "auto" =>
          <<out'.activeTowers, out'.coolingDemand>> =
              StagingTable(inp'.data.CH2 - inp'.data.userSetpoint,
                           inp'.data.CH2, inp'.data.CH10,
                           {i \in Towers : ss.towers.timers[i].startTime # NULL})]_vars

\* The continue-operation row with two towers running: deltaT = -5 keeps both
\* demanded at the 28 % floor.
C17_Witness ==
    /\ AutoTick
    /\ inp.data.CH2 = 70
    /\ inp.data.userSetpoint = 75
    /\ out.activeTowers = 2
    /\ out.coolingDemand = 28

\* C18 as claimed: on an automatic tick with deltaT < -10 or HP supply < 65
\* (the commander then enables no tower), every tower whose start_time is at
\* least 420 s old is shut down: start_time cleared, stop_time = now, VFD
\* enable false and isolation valve commanded closed, for every setpoint.
C18_EnforcerShutdown ==
    [][(/\ path' = "auto"
        /\ \/ inp'.data.CH2 - inp'.data.userSetpoint < 0 - 10
           \/ inp'.data.CH2 < 65) =>
          \A i \in Towers :
             (/\ ss.towers.timers[i].startTime # NULL
              /\ now' - ss.towers.timers[i].startTime >= 420) =>
                 /\ ss'.towers.timers[i].startTime = NULL
                 /\ ss'.towers.timers[i].stopTime = now'
                 /\ ~out'.VFDEnable[i]
                 /\ out'.IsolationValveClose[i]
                 /\ ~out'.IsolationValveOpen[i]]_vars

\* C19: a tick that returns the safety-shutdown output leaves the carried
\* control state as it was (as initializeState creates it, if the call is the
\* first): tower timers, lead tower and its rotation instant, the pump record,
\* the ramp states and the PID states are the same after the tick as before.
C19_SafetyLeavesState ==
    [][path' = "safety" =>
          /\ ss'.towers = initializeState(ss, now').towers
          /\ ss'.pumps = initializeState(ss, now').pumps
          /\ ss'.pidStates = initializeState(ss, now').pidStates]_vars

\* A safety shutdown that hit a running tower inside its minimum runtime: the
\* output has the tower off while its start_time, set on an earlier tick, stands.
C19_Witness ==
    /\ ticks > 1
    /\ path = "safety"
    /\ \E i \in Towers :
          /\ ss.towers.timers[i].startTime # NULL
          /\ ss.towers.timers[i].startTime < now
          /\ ~out.VFDEnable[i]

\* C20 as claimed: on every tick without a critical fault, a tower enable or
\* fan speed supplied by the UI is what the call returns for that tower, in
\* auto mode as well as manual mode.
C20_TowerOverridesAuthoritative ==
    (ticks > 0 /\ ~inp.dataNull /\ ~inp.uiNull /\ ~CriticalFaultInInput) =>
        \A i \in Towers :
           /\ inp.ui.VFDEnable[i] # "undef"
                 => out.VFDEnable[i] = (inp.ui.VFDEnable[i] = "true")
           /\ inp.ui.FanSpeed[i] # Undef
                 => out.FanSpeed[i] = inp.ui.FanSpeed[i]

\* C21 as claimed: on every tick without a critical fault, a bypass valve
\* position supplied by the UI is returned clamped to [2.0, 10.0] V, whether
\* or not a tempering position is supplied too, in every outdoor regime and
\* control mode; likewise for a supplied tempering position.
C21_ValveOverridesIndependent ==
    (ticks > 0 /\ ~inp.dataNull /\ ~inp.uiNull /\ ~CriticalFaultInInput) =>
        /\ inp.ui.bypassValvePosition \notin {Undef, NonNumeric}
              => out.bypassValvePosition = Max(20, Min(100, inp.ui.bypassValvePosition))
        /\ inp.ui.temperingValvePosition \notin {Undef, NonNumeric}
              => out.temperingValvePosition = Max(20, Min(100, inp.ui.temperingValvePosition))

\* The statement of the latest call that threw, if any: parseSensorData on
\* null data or on a reading that cannot be converted; applyManualOverrides on null uiCommands or on a fan speed that
\* cannot be converted; controlValves, reached in auto mode with the system
\* enabled, on a valve position that cannot be converted.  A critical fault
\* returns before uiCommands is read.
ReachesControlValves ==
    /\ inp.ui.systemEnabled # "false"
    /\ inp.ui.controlMode \in {"undef", "auto"}

TickThrew ==
    /\ ticks > 0
    /\ \/ inp.dataNull
       \/ parseSensorDataThrows(inp.data)
       \/ /\ ~CriticalFaultInInput
          /\ \/ inp.uiNull
             \/ \E i \in Towers : inp.ui.FanSpeed[i] = Unconvertible
             \/ /\ ReachesControlValves
                /\ \/ inp.ui.bypassValvePosition = Unconvertible
                   \/ inp.ui.temperingValvePosition = Unconvertible

\* C22: when any step of a tick throws, the value returned is the fully-safe
\* output: all tower VFD enables false with speeds 0, all isolation-valve-close
\* true, all pump enables false, all heaters off, tempering and bypass at
\* 2.0 V, alarmStatus error, faultConditions [CONTROL_SYSTEM_ERROR] and
\* controlMode error.
C22_ErrorReturnsSafeOutput ==
    TickThrew =>
        /\ \A i \in Towers : /\ ~out.VFDEnable[i]
                             /\ out.FanSpeed[i] = 0
                             /\ out.IsolationValveClose[i]
                             /\ ~out.HeaterEnable[i]
        /\ \A p \in Pumps : ~out.pumpEnable[p]
        /\ out.temperingValvePosition = 20
        /\ out.bypassValvePosition = 20
        /\ out.alarmStatus = "error"
        /\ out.faultConditions = {<<"CONTROL_SYSTEM_ERROR", 0>>}
        /\ out.controlMode = "error"

\* The valve controller threw under cooling demand, after the tower commander
\* had started the lead tower in the same call: the call returned the safe
\* output.
C22_Witness ==
    /\ TickThrew
    /\ inp.ui.temperingValvePosition = Unconvertible
    /\ ss.towers.timers[1].startTime = now
    /\ ~out.VFDEnable[1]
    /\ out.controlMode = "error"

\* C23 as claimed: when a tick ends on the error path, wherever in the
\* sequence the exception was thrown, the carried state after the tick is the
\* carried state before it (as initializeState creates it, if the call is the
\* first): no timer, lead, pump, ramp or PID field has changed.
C23_ErrorLeavesState ==
    [][path' = "error" =>
          /\ ss'.towers = initializeState(ss, now').towers
          /\ ss'.pumps = initializeState(ss, now').pumps
          /\ ss'.pidStates = initializeState(ss, now').pidStates]_vars

\* No tower has run or stopped yet (also true of the empty carried state).
EmptyTimers ==
    \A i \in Towers : /\ ss.towers.timers[i].startTime = NULL
                      /\ ss.towers.timers[i].stopTime = NULL

\* C24 as claimed: on every tick that returns in auto mode without a critical
\* fault, each tower inside its first 420 s is commanded exactly 2.6 V with its
\* valve open; and from empty timers with all towers available, deltaT >= 10
\* enables the lead tower at 2.6 V with start_time = now, and deltaT >= 30
\* enables all three towers at 2.6 V.  (deltaT is the call's own, returned as
\* loopDeltaT.)
C24_Original ==
    [][path' = "auto" =>
          /\ \A i \in Towers :
                (/\ ss'.towers.timers[i].startTime # NULL
                 /\ now' - ss'.towers.timers[i].startTime < 420) =>
                    /\ out'.VFDEnable[i]
                    /\ out'.FanSpeed[i] = 26
                    /\ out'.IsolationValveOpen[i]
          /\ (towerAvail = Towers /\ EmptyTimers) =>
                /\ out'.loopDeltaT >= 10 =>
                      /\ out'.VFDEnable[ss'.towers.leadTower]
                      /\ out'.FanSpeed[ss'.towers.leadTower] = 26
                      /\ ss'.towers.timers[ss'.towers.leadTower].startTime = now'
                /\ out'.loopDeltaT >= 30 =>
                      \A i \in Towers : out'.VFDEnable[i] /\ out'.FanSpeed[i] = 26]_vars

\* C24 as amended: the same, with the starts from empty timers claimed only
\* when no hard limit holds the towers off: HP supply >= 65 F and tower supply
\* >= 50 F, as the call uses them (a reading inside [40, 120] F is used as it
\* is and kept in lastGoodTemps; for any other reading the lastGoodTemps entry
\* is used).
C24_StartupFloor ==
    [][path' = "auto" =>
          /\ \A i \in Towers :
                (/\ ss'.towers.timers[i].startTime # NULL
                 /\ now' - ss'.towers.timers[i].startTime < 420) =>
                    /\ out'.VFDEnable[i]
                    /\ out'.FanSpeed[i] = 26
                    /\ out'.IsolationValveOpen[i]
          /\ (/\ towerAvail = Towers
              /\ EmptyTimers
              /\ ss'.lastGoodTemps.hpSupply >= 65
              /\ ss'.lastGoodTemps.towerSupply >= 50) =>
                /\ out'.loopDeltaT >= 10 =>
                      /\ out'.VFDEnable[ss'.towers.leadTower]
                      /\ out'.FanSpeed[ss'.towers.leadTower] = 26
                      /\ ss'.towers.timers[ss'.towers.leadTower].startTime = now'
                /\ out'.loopDeltaT >= 30 =>
                      \A i \in Towers : out'.VFDEnable[i] /\ out'.FanSpeed[i] = 26]_vars

\* The first call, with all towers available and deltaT = 30 while the tower
\* PID asks for full speed: all three towers have started at 2.6 V.
C24_Witness ==
    /\ ticks = 1
    /\ AutoTick
    /\ towerAvail = Towers
    /\ pidAvail
    /\ out.loopDeltaT >= 30
    /\ inp.pid.tower[1] = 48
    /\ \A i \in Towers : /\ ss.towers.timers[i].startTime = now
                         /\ out.VFDEnable[i]
                         /\ out.FanSpeed[i] = 26
                         /\ out.IsolationValveOpen[i]

\* C26 as claimed: on every automatic tick with tower supply below 50 F, every
\* tower that is not within its first 420 s of runtime has VFD enable false at
\* the end of the tick, whatever deltaT is.
C26_TowerSupplyHardLimit ==
    (AutoTick /\ inp.data.CH10 < 50) =>
        \A i \in Towers : ~InMinimumRuntime(i) => ~out.VFDEnable[i]

NumTowersEnabled == Cardinality({i \in Towers : out.VFDEnable[i]})

NumTowersRunning == Cardinality({i \in Towers : ss.towers.timers[i].startTime # NULL})

\* The latest call was an automatic tick with deltaT at least d: the deltaT
\* of the call itself (HP supply as sanitized minus the setpoint as defaulted),
\* which an automatic tick returns as loopDeltaT.
DemandAtLeast(d) == AutoTick /\ out.loopDeltaT >= d

RunningBeforeTick ==
    {i \in Towers : \/ (ss.towers.timers[i].startTime # NULL
                        /\ ss.towers.timers[i].startTime < now)
                    \/ ss.towers.timers[i].stopTime = now}

RotatedUnderContinuation ==
    /\ ticks = 2
    /\ path = "auto"
    /\ ss.towers.lastRotationTime = now
    /\ ss.towers.leadTower # 1
    /\ Cardinality(RunningBeforeTick) = 1
    /\ out.loopDeltaT >= 0 - 5
    /\ out.loopDeltaT < 10

\* C27 as claimed: if exactly one tower is running under continuation demand
\* when the lead rotates to another tower, then on the next tick with the same
\* readings at most one tower has VFD enable true.
C27_RotationKeepsTowerCount ==
    [][(RotatedUnderContinuation /\ path' = "auto" /\ inp'.data = inp.data) =>
          Cardinality({i \in Towers : out'.VFDEnable[i]}) <= 1]_vars

\* C28 as claimed: a tower whose VFD enable was false on the previous tick
\* and that has no start_time gets its start_time set and its VFD enabled
\* only on a tick where deltaT >= 10.
C28_StartOnlyOnDemand ==
    [][\A i \in Towers :
          (/\ ~out.VFDEnable[i]
           /\ ss.towers.timers[i].startTime = NULL
           /\ ss'.towers.timers[i].startTime # NULL
           /\ out'.VFDEnable[i]) =>
              inp'.data.CH2 - inp'.data.userSetpoint >= 10]_vars

\* The call that leads to the primed state ran the automatic sequence, and its
\* tower commander did not enable tower i: i is not in towersToEnable (the
\* first demandedTowers towers of the order lead, lag 1, lag 2, with the lead
\* and the demand the call returns), or canEnableTower refused it on the
\* carried state (enabling another tower changes neither i's timer nor its
\* availability).
NotCommanded(i) ==
    LET lead == out'.leadTower
        sd == [leadTower |-> lead,
               lagTowers |-> <<(lead % 3) + 1, ((lead + 1) % 3) + 1>>,
               demandedTowers |-> out'.activeTowers]
    IN  /\ path' = "auto"
        /\ \/ \A k \in 1..Len(towersToEnable(sd)) : towersToEnable(sd)[k] # i
           \/ ~canEnableTower(i, initializeState(ss, now'), now')

\* C29 as claimed: on an automatic tick, for a tower that has a start_time at
\* least 420 s old and that the commander does not enable, with neither
\* deltaT < -10 nor HP supply < 65, the tick clears the tower's start_time and
\* forces it ON: enable true, speed 2.6 V, valve open, valve-close cleared.
C29_ContinueBranchClearsStart ==
    [][path' = "auto" =>
          \A i \in Towers :
             (/\ ss.towers.timers[i].startTime # NULL
              /\ now' - ss.towers.timers[i].startTime >= 420
              /\ NotCommanded(i)
              /\ inp'.data.CH2 - inp'.data.userSetpoint >= 0 - 10
              /\ inp'.data.CH2 >= 65) =>
                 /\ ss'.towers.timers[i].startTime = NULL
                 /\ out'.VFDEnable[i]
                 /\ out'.FanSpeed[i] = 26
                 /\ out'.IsolationValveOpen[i]
                 /\ ~out'.IsolationValveClose[i]]_vars

\* C30 as claimed: a tick of the pump supervisor that begins with a changeover
\* record 5 s old or older sets active = new_pump, leaves no changeover record
\* and enables that pump only.
C30_ChangeoverCompletion ==
    [][(/\ path' = "auto"
        /\ ss.pumps.changeoverState # NoChangeover
        /\ now' - ss.pumps.changeoverState.startTime >= 5) =>
          /\ ss'.pumps.activePump = ss.pumps.changeoverState.newPump
          /\ ss'.pumps.changeoverState = NoChangeover
          /\ \A p \in Pumps :
                out'.pumpEnable[p] <=> p = ss.pumps.changeoverState.newPump]_vars

\* C31: failover_count increases, by one, only on a tick where the active
\* pump's current reads below 10 A, and a tick that records a failover comes
\* more than 30 s after the tick that recorded the previous one (whose instant
\* last_failover_instant holds).
C31_FailoverDebounce ==
    [][ss'.pumps.failoverCount # initializeState(ss, now').pumps.failoverCount =>
          /\ ss'.pumps.failoverCount = initializeState(ss, now').pumps.failoverCount + 1
          /\ OrDefault(inp'.data.pumpI[ss'.pumps.activePump], 0) < 10
          /\ ss'.pumps.lastFailoverTime = now'
          /\ ss.pumps.failoverCount > 0 => now' - ss.pumps.lastFailoverTime > 30]_vars

\* A second failover has been recorded, 31 s after the first.
C31_Witness ==
    /\ AutoTick
    /\ ss.pumps.failoverCount = 2
    /\ ss.pumps.lastFailoverTime = now
    /\ inp.dt = 31
    /\ ticks = 2

\* C32 as claimed: the first tick from the empty state, in auto mode without
\* faults and with all pump currents reading 0 A, enables the active pump 1,
\* leaves failover_count at 0 and creates no changeover record.
C32_NoFailoverBeforeFirstStart ==
    (/\ ticks = 1
     /\ AutoTick
     /\ \A p \in Pumps : OrDefault(inp.data.pumpI[p], 0) = 0) =>
        /\ out.pumpEnable[1]
        /\ ss.pumps.failoverCount = 0
        /\ ss.pumps.changeoverState = NoChangeover

\* The next available tower after cur in the cyclic order (cur mod 3) + 1,
\* scanning up to three times (the third scan comes back to cur itself); cur
\* if no tower is available.
NextAvailableTower(cur) ==
    LET c1 == (cur % 3) + 1
        c2 == (c1 % 3) + 1
    IN  IF c1 \in towerAvail THEN c1
        ELSE IF c2 \in towerAvail THEN c2
        ELSE cur

\* C33 as claimed: on an automatic tick with now - lead_rotation_start >= 7
\* days, equality included, lead_tower advances to the next available tower
\* of the cyclic order; lead_rotation_start becomes now on a tick where
\* lead_tower changed and on no other tick; with no tower available, and
\* before the 7 days are over, both stay unchanged.
C33_LeadRotation ==
    [][path' = "auto" =>
          /\ now' - initializeState(ss, now').towers.lastRotationTime >= WEEK_IN_MS
                => ss'.towers.leadTower =
                      NextAvailableTower(initializeState(ss, now').towers.leadTower)
          /\ now' - initializeState(ss, now').towers.lastRotationTime < WEEK_IN_MS
                => ss'.towers.leadTower = initializeState(ss, now').towers.leadTower
          /\ ss'.towers.leadTower # initializeState(ss, now').towers.leadTower
                => ss'.towers.lastRotationTime = now'
          /\ ss'.towers.leadTower = initializeState(ss, now').towers.leadTower
                => ss'.towers.lastRotationTime =
                      initializeState(ss, now').towers.lastRotationTime]_vars

\* The towers with a warning-level reading in the latest call's snapshot: a
\* VFD leg current above 40 A up to 45 A, or a vibration above 4.5 mm/s up to
\* 7.1 mm/s.
TowersInWarning ==
    {i \in Towers :
        \/ \E k \in 1..6 : /\ TowerOfLeg(k) = i
                           /\ inp.data.AI[k] > 40 /\ inp.data.AI[k] <= 45
        \/ (inp.data.WTV[i] > 45 /\ inp.data.WTV[i] <= 71)}

\* C34 as claimed: on every automatic tick where a tower has a warning-level
\* VFD current or vibration, that tower's commanded fan speed at the end of
\* the tick is at most 3.5 V and alarmStatus is warning.
C34_WarningClamp ==
    AutoTick =>
        \A i \in TowersInWarning : out.FanSpeed[i] <= 35 /\ out.alarmStatus = "warning"

\* C35 as claimed: a tower's ramp current_voltage rises on a tick only if
\* now - last_change >= 15 s and falls on a tick only if now - last_change
\* >= 20 s, last_change being the value the tick found.
C35_RampStepSpacing ==
    [][\A i \in Towers :
          /\ ss'.towers.speedRamping[i].currentSpeed > ss.towers.speedRamping[i].currentSpeed
                => now' - ss.towers.speedRamping[i].lastChange >= 15
          /\ ss'.towers.speedRamping[i].currentSpeed < ss.towers.speedRamping[i].currentSpeed
                => now' - ss.towers.speedRamping[i].lastChange >= 20]_vars

\* C36 as claimed: on every tick that starts a tower (its start_time newly
\* set), the first start and every later one, that tower's ramp
\* current_voltage is 2.6 V and its last_change is now.
C36_RampReinitializedOnStart ==
    [][\A i \in Towers :
          (/\ ss.towers.timers[i].startTime = NULL
           /\ ss'.towers.timers[i].startTime = now') =>
              /\ ss'.towers.speedRamping[i].currentSpeed = 26
              /\ ss'.towers.speedRamping[i].lastChange = now']_vars

\* The raw reading of each loop-temperature channel in the arguments of a call.
RawReading(data) ==
    [towerSupply |-> data.CH10, towerReturn |-> data.CH9,
     hpReturn |-> data.CH1, hpSupply |-> data.CH2]

LoopChannels == {"towerSupply", "towerReturn", "hpReturn", "hpSupply"}

\* The value of each of the four loop temperatures used for control on a tick
\* lies in [40, 120] F.
TempsUsedInRange ==
    [][\A k \in LoopChannels :
          LET used == parseSensorData(inp'.data, initializeState(ss, now')).sensorData.temps[k]
          IN  used >= 40 /\ used <= 120]_vars

\* C37: over any sequence of ticks, each loop temperature used for control
\* lies in [40, 120] F, and last_good_temps of a channel changes on a tick only
\* when the tick's raw reading of the channel lies in [40, 120], and then it
\* becomes that raw reading (a raw 0 or an absent key does not alter it).
C37_SensorSanitizer ==
    [][\A k \in LoopChannels :
          LET before == initializeState(ss, now').lastGoodTemps[k]
              raw == RawReading(inp'.data)[k]
              used == parseSensorData(inp'.data, initializeState(ss, now')).sensorData.temps[k]
          IN  /\ used >= 40 /\ used <= 120
              /\ ss'.lastGoodTemps[k] # before =>
                    /\ raw >= 40 /\ raw <= 120
                    /\ ss'.lastGoodTemps[k] = raw]_vars

\* C38: at the end of every tick without a critical fault, every tower whose
\* VFD enable is true has its isolation valve commanded open and not commanded
\* closed, in auto mode and when the enable comes from a UI override in manual
\* mode.
C38_FanNeverAgainstClosedValve ==
    path \in {"auto", "skip"} =>
        \A i \in Towers :
            out.VFDEnable[i] =>
                out.IsolationValveOpen[i] /\ ~out.IsolationValveClose[i]

\* C39: over any sequence of auto-mode ticks from the initial state, a tower
\* configured unavailable never gets a start time and never has its VFD
\* enabled, through the runtime enforcer and after lead rotation as well.
C39_UnavailableNeverRuns ==
    \A i \in Towers \ towerAvail :
        /\ ss.towers.timers[i].startTime = NULL
        /\ ~out.VFDEnable[i]

\* Three towers are demanded while one is unavailable and another runs, after
\* the lead has rotated away from tower 1: the unavailable tower was handed to
\* canEnableTower.
C39_Witness ==
    /\ path = "auto"
    /\ out.activeTowers = 3
    /\ ss.towers.leadTower # 1
    /\ Cardinality(towerAvail) = 2
    /\ \E j \in Towers : out.VFDEnable[j]

\* The latest call is later than the minimum runtime plus one caller period
\* after the first call of an unbroken run of automatic calls with deltaT < -15.
ShutdownDue ==
    /\ coldSince # NULL
    /\ now > coldSince + MinRuntimeS + CallerPeriodS

\* C40 as stated: in auto mode without faults, when deltaT < -15 has held on
\* every tick from t0 on, on every tick later than t0 + 420 s plus one tick
\* period every tower has VFD enable false and a stop time set.
C40_Original ==
    ShutdownDue =>
        \A i \in Towers :
            /\ ~out.VFDEnable[i]
            /\ ss.towers.timers[i].stopTime # NULL

\* C40, amended: in auto mode without faults, when deltaT < -15 has held on
\* every tick from t0 on, on every tick later than t0 + 420 s plus one tick
\* period every tower has VFD enable false and no start time, and every tower
\* that has run has a stop time set.
C40_ShutdownReached ==
    ShutdownDue =>
        \A i \in Towers :
            /\ ~out.VFDEnable[i]
            /\ ss.towers.timers[i].startTime = NULL
            /\ offAt[i] # NULL => ss.towers.timers[i].stopTime # NULL

\* A tower that was running when deltaT fell below -15 was held on by the
\* enforcer and then stopped during the cold run, and a later call found it off.
C40_Witness ==
    /\ ShutdownDue
    /\ \E i \in Towers :
          /\ offAt[i] > coldSince
          /\ offAt[i] < now
          /\ ss.towers.timers[i].stopTime = offAt[i]

====
